---- MODULE Spec2Model ----
(***************************************************************************)
(* Model of the fixture importer (vgm_source_database/import_utils.py),    *)
(* the storage schema it writes to (the models.py files) and the fixture   *)
(* builder (convert_csv_to_yaml.py).                                       *)
(*                                                                         *)
(* Python values are represented as follows.  Strings are TLA+ strings.    *)
(* Integer keys are integers; Python's None in a key or integer position   *)
(* is the integer None.  A mapping is a record (a function on strings);    *)
(* an ordered mapping whose order matters (a record's `fields`) is a       *)
(* sequence of <<name, value>> pairs.  A list is a sequence.               *)
(***************************************************************************)
EXTENDS Integers, Sequences, FiniteSets, TLC

VARIABLES
    fixture_data,        \* the loaded YAML document of the call in progress
    duplicate_handling,  \* "skip" or "overwrite"
    db,                  \* storage: entity type -> (key -> row)
    idx,                 \* 1-based index of the next item of the loop
    stats,               \* the statistics dictionary of the call in progress
    pc,                  \* "start", "loop", "returned" or "raised"
    pass,                \* 1 during the first call, 2 during the repeated call
    first,               \* result of the first call, once the second has begun
    before,              \* storage as it was before the last processed item
    csv_dir,             \* builder: the stems of the CSV files in the input directory
    csv_read,            \* builder: the files opened so far with the rows read from each
    cv,                  \* builder: the attributes of the CSVConverter object
    loc,                 \* builder: the locals of the process_csv_file call in progress
    out,                 \* builder: the fixture collections written by generate_yaml
    bpc,                 \* builder: position in convert()
    options,             \* commands: the options of import_data and what it finds on disk
    export_options,      \* commands: the options of export_data
    epos,                \* commands: position of export_data in its export order
    written,             \* commands: the files export_data wrote, in order
    pos,                 \* commands: position of import_data in fixture_order
    imported,            \* commands: the files handed to _import_file, in order
    error_file,          \* commands: the lines of the error file, <<>> while there is none
    captured,            \* commands: the errors of every stats returned during the run
    cpc,                 \* commands: position of the run
    origin               \* commands: the storage export_data read, once a restore has begun

importer_vars == <<fixture_data, duplicate_handling, db, idx, stats, pc, pass, first, before>>
builder_vars == <<csv_dir, csv_read, cv, loc, out, bpc>>
command_vars ==
    <<options, export_options, epos, written, pos, imported, error_file, captured, cpc,
      origin>>
vars == <<importer_vars, builder_vars, command_vars>>

----------------------------------------------------------------------------
(* Python values *)

\* Python's None where a key or an integer is expected
None == -1

\* a reference scalar that is no integer (the YAML string "abc" where a key
\* is expected): the ORM's key coercion raises ValueError on it
NotAKey == -2

NoExc == [type |-> "", text |-> ""]
Exc(t, s) == [type |-> t, text |-> s]

----------------------------------------------------------------------------
(* str methods used by the code *)

UpperLetters == "ABCDEFGHIJKLMNOPQRSTUVWXYZ"
LowerLetters == "abcdefghijklmnopqrstuvwxyz"

Char(s, i) == SubSeq(s, i, i)

LowerChar(c) ==
    IF \E i \in 1..Len(UpperLetters) : Char(UpperLetters, i) = c
    THEN Char(LowerLetters, CHOOSE i \in 1..Len(UpperLetters) : Char(UpperLetters, i) = c)
    ELSE c

UpperChar(c) ==
    IF \E i \in 1..Len(LowerLetters) : Char(LowerLetters, i) = c
    THEN Char(UpperLetters, CHOOSE i \in 1..Len(LowerLetters) : Char(LowerLetters, i) = c)
    ELSE c

\* str.lower()
RECURSIVE Lower(_)
Lower(s) == IF Len(s) = 0 THEN "" ELSE LowerChar(Char(s, 1)) \o Lower(SubSeq(s, 2, Len(s)))

\* str.upper()
RECURSIVE Upper(_)
Upper(s) == IF Len(s) = 0 THEN "" ELSE UpperChar(Char(s, 1)) \o Upper(SubSeq(s, 2, Len(s)))

\* `pattern in s`
Contains(s, pattern) ==
    \E i \in 1..(Len(s) - Len(pattern) + 1) : SubSeq(s, i, i + Len(pattern) - 1) = pattern

\* s.split(sep) for a one-character separator
RECURSIVE Split(_, _)
Split(s, sep) ==
    IF \E i \in 1..Len(s) : Char(s, i) = sep
    THEN LET i == CHOOSE k \in 1..Len(s) :
                      /\ Char(s, k) = sep
                      /\ \A j \in 1..(k - 1) : Char(s, j) # sep
         IN  <<SubSeq(s, 1, i - 1)>> \o Split(SubSeq(s, i + 1, Len(s)), sep)
    ELSE <<s>>

\* str(x) of a key position
Str(k) == IF k = None THEN "None" ELSE IF k = NotAKey THEN "abc" ELSE ToString(k)

WordChars == LowerLetters \o UpperLetters \o "0123456789_"

IsWordChar(c) == Contains(WordChars, c)

\* re.sub(r"[^\w\s-]", "", s)
RECURSIVE StripPunctuation(_)
StripPunctuation(s) ==
    IF Len(s) = 0 THEN ""
    ELSE LET c == Char(s, 1) IN
         (IF IsWordChar(c) \/ c = " " \/ c = "-" THEN c ELSE "")
             \o StripPunctuation(SubSeq(s, 2, Len(s)))

\* re.sub(r"[-\s]+", "-", s)
RECURSIVE CollapseDashes(_)
CollapseDashes(s) ==
    IF Len(s) = 0 THEN ""
    ELSE LET c == Char(s, 1)
             rest == SubSeq(s, 2, Len(s))
             sep(x) == x = " " \/ x = "-"
         IN  IF sep(c)
             THEN IF Len(rest) > 0 /\ sep(Char(rest, 1))
                  THEN CollapseDashes(rest)
                  ELSE "-" \o CollapseDashes(rest)
             ELSE c \o CollapseDashes(rest)

\* s.strip(chars)
RECURSIVE StripChars(_, _)
StripChars(s, chars) ==
    IF Len(s) = 0 THEN ""
    ELSE IF Contains(chars, Char(s, 1)) THEN StripChars(SubSeq(s, 2, Len(s)), chars)
    ELSE IF Contains(chars, Char(s, Len(s))) THEN StripChars(SubSeq(s, 1, Len(s) - 1), chars)
    ELSE s

\* django.utils.text.slugify on ASCII text, as GameTag.save calls it
DjangoSlugify(s) == StripChars(CollapseDashes(StripPunctuation(Lower(s))), "-_")

----------------------------------------------------------------------------
(* The schema: games/models.py, songs/models.py, sources/models.py *)

Models == {"GameTag", "Game", "Person", "Song", "Company", "Product", "Bank",
           "SoundSource", "User"}

\* scalar columns (created_at and updated_at are set by storage and left out)
PlainFields(m) ==
    CASE m = "GameTag" -> {"name", "slug", "description"}
      [] m = "Game" -> {"title", "release_date", "release_year", "notes"}
      [] m = "Person" -> {"name", "notes"}
      [] m = "Song" -> {"title", "track_number", "notes"}
      [] m \in {"Company", "Product", "Bank", "SoundSource"} -> {"name", "notes"}
      [] OTHER -> {}

\* scalar columns declared null=True
NullablePlain == {"release_date", "release_year", "track_number"}

\* ForeignKey fields: name -> related model
ForeignKeys(m) ==
    CASE m = "Song" -> [game |-> "Game"]
      [] m = "Product" -> [company |-> "Company"]
      [] m = "Bank" -> [product |-> "Product"]
      [] m = "SoundSource" -> [bank |-> "Bank", product |-> "Product"]
      [] OTHER -> <<>>

\* ForeignKey fields declared null=True
NullableFK(m) == IF m = "SoundSource" THEN {"bank", "product"} ELSE {}

\* ManyToManyField fields: name -> related model
ManyToMany(m) ==
    CASE m = "Game" -> [album_artists |-> "Person", tags |-> "GameTag"]
      [] m = "Person" -> [products |-> "Product"]
      [] m = "Song" -> [composers |-> "Person", arrangers |-> "Person"]
      [] m = "SoundSource" -> [discoverers |-> "User", games |-> "Game", songs |-> "Song"]
      [] OTHER -> <<>>

\* unique=True columns and Meta.unique_together
UniqueSets(m) ==
    CASE m = "GameTag" -> {{"name"}, {"slug"}}
      [] m = "Song" -> {{"title", "game"}}
      [] m = "Company" -> {{"name"}}
      [] m = "Product" -> {{"name", "company"}}
      [] m = "Bank" -> {{"name", "product"}}
      [] OTHER -> {}

FieldNames(m) == PlainFields(m) \cup DOMAIN ForeignKeys(m) \cup DOMAIN ManyToMany(m)

\* apps.get_model(app_label, model_name): the model class, or "" for LookupError.
\* The app label is the last component of the AppConfig name; the model name
\* is matched case-insensitively.
AppModels ==
    [games |-> [gametag |-> "GameTag", game |-> "Game"],
     songs |-> [person |-> "Person", song |-> "Song"],
     sources |-> [company |-> "Company", product |-> "Product", bank |-> "Bank",
                  soundsource |-> "SoundSource"]]

get_model(app_label, model_name) ==
    IF app_label \in DOMAIN AppModels /\ Lower(model_name) \in DOMAIN AppModels[app_label]
    THEN AppModels[app_label][Lower(model_name)]
    ELSE ""

----------------------------------------------------------------------------
(* Storage, as the ORM calls of import_fixture_file use it.                *)
(* db.tables[m] maps each stored key of model m to its row; a row maps     *)
(* every field of m to its value, a many-to-many field to the set of       *)
(* related keys.  db.seq[m] is the key sequence storage draws from when a  *)
(* row is inserted without a key.                                          *)

EmptyDb == [tables |-> [m \in Models |-> <<>>], seq |-> [m \in Models |-> 0]]

Exists(store, m, pk) == pk \in DOMAIN store.tables[m]

\* regular_fields is a sequence of [name, value, instance]: instance tells
\* that a ForeignKey value was resolved to a stored object
Given(reg, f) == \E k \in 1..Len(reg) : reg[k].name = f
ValueOf(reg, f) == reg[CHOOSE k \in 1..Len(reg) : reg[k].name = f].value

\* the related-object descriptor refuses a value that is neither None nor an instance
CannotAssign(m, r) ==
    /\ r.name \in DOMAIN ForeignKeys(m)
    /\ r.value # None
    /\ ~r.instance

CannotAssignError(m, r) ==
    Exc("ValueError",
        "Cannot assign \"" \o Str(r.value) \o "\": \"" \o m \o "." \o r.name
            \o "\" must be a \"" \o ForeignKeys(m)[r.name] \o "\" instance.")

\* Model(**kwargs): raises for the first unassignable ForeignKey value, then
\* for a keyword that is no field of the model
InitError(m, reg) ==
    IF \E k \in 1..Len(reg) : CannotAssign(m, reg[k])
    THEN CannotAssignError(m, reg[CHOOSE k \in 1..Len(reg) :
             /\ CannotAssign(m, reg[k])
             /\ \A j \in 1..(k - 1) : ~CannotAssign(m, reg[j])])
    ELSE IF \E k \in 1..Len(reg) : reg[k].name \notin FieldNames(m)
    THEN Exc("TypeError", m \o "() got unexpected keyword arguments")
    ELSE NoExc

\* setattr(obj, k, v) over the defaults of update_or_create
SetattrError(m, reg) ==
    IF \E k \in 1..Len(reg) : CannotAssign(m, reg[k])
    THEN CannotAssignError(m, reg[CHOOSE k \in 1..Len(reg) :
             /\ CannotAssign(m, reg[k])
             /\ \A j \in 1..(k - 1) : ~CannotAssign(m, reg[j])])
    ELSE NoExc

\* the row of a new object: given values, else the field's default
NewRow(m, reg) ==
    [f \in FieldNames(m) |->
        IF f \in DOMAIN ManyToMany(m) THEN {}
        ELSE IF Given(reg, f) THEN ValueOf(reg, f)
        ELSE IF f \in PlainFields(m) /\ f \notin NullablePlain THEN ""
        ELSE None]

\* mutant: the update loses the given values
ChangedRow_KeepsOld(m, old, reg) == old

\* the row of an existing object after setattr of the given values
ChangedRow(m, old, reg) ==
    [f \in FieldNames(m) |->
        IF f \notin DOMAIN ManyToMany(m) /\ Given(reg, f) THEN ValueOf(reg, f) ELSE old[f]]

\* GameTag.save: an empty slug is derived from the name
GameTag_save(m, row) ==
    IF m = "GameTag" /\ row.slug = ""
    THEN [row EXCEPT !.slug = DjangoSlugify(row.name)]
    ELSE row

\* mutant: SoundSource.save does not validate
SoundSource_clean_Never(m, row) == NoExc

\* SoundSource.save -> full_clean -> SoundSource.clean
SoundSource_clean(m, row) ==
    IF m = "SoundSource" /\ row.bank = None /\ row.product = None
    THEN Exc("ValidationError", "Sound source must have either a bank OR a product.")
    ELSE NoExc

\* a required ForeignKey column left NULL
NotNullViolation(m, row) ==
    \E f \in DOMAIN ForeignKeys(m) \ NullableFK(m) : row[f] = None

\* another stored row agrees with the row on all columns of a unique set
UniqueViolation(table, m, pk, row) ==
    \E u \in UniqueSets(m) : \E k \in DOMAIN table \ {pk} :
        \A f \in u : table[k][f] = row[f]

NotNullError ==
    Exc("IntegrityError", "null value in column violates not-null constraint")
UniqueError ==
    Exc("IntegrityError", "duplicate key value violates unique constraint")

\* model_class.objects.create(pk=pk, **regular_fields)
Create(store, m, pk, reg) ==
    LET e0 == InitError(m, reg)
        row == GameTag_save(m, NewRow(m, reg))
        e1 == SoundSource_clean(m, row)
        key == IF pk = None THEN store.seq[m] + 1 ELSE pk
        drawn == IF pk = None THEN [store EXCEPT !.seq[m] = key] ELSE store
    IN  IF e0.type # "" THEN [exc |-> e0, db |-> store, pk |-> pk]
        ELSE IF e1.type # "" THEN [exc |-> e1, db |-> store, pk |-> pk]
        ELSE IF NotNullViolation(m, row) THEN [exc |-> NotNullError, db |-> drawn, pk |-> key]
        ELSE IF Exists(store, m, key) \/ UniqueViolation(store.tables[m], m, key, row)
        THEN [exc |-> UniqueError, db |-> drawn, pk |-> key]
        ELSE [exc |-> NoExc,
              db |-> [drawn EXCEPT !.tables[m] = (key :> row) @@ @],
              pk |-> key]

\* setattr of the defaults on the stored object, then obj.save()
Update(store, m, pk, reg) ==
    LET e0 == SetattrError(m, reg)
        row == GameTag_save(m, ChangedRow(m, store.tables[m][pk], reg))
        e1 == SoundSource_clean(m, row)
    IN  IF e0.type # "" THEN [exc |-> e0, db |-> store, pk |-> pk]
        ELSE IF e1.type # "" THEN [exc |-> e1, db |-> store, pk |-> pk]
        ELSE IF NotNullViolation(m, row) THEN [exc |-> NotNullError, db |-> store, pk |-> pk]
        ELSE IF UniqueViolation(store.tables[m], m, pk, row)
        THEN [exc |-> UniqueError, db |-> store, pk |-> pk]
        ELSE [exc |-> NoExc, db |-> [store EXCEPT !.tables[m][pk] = row], pk |-> pk]

\* model_class.objects.update_or_create(pk=pk, defaults=regular_fields)
update_or_create(store, m, pk, reg) ==
    IF Exists(store, m, pk)
    THEN [created |-> FALSE] @@ Update(store, m, pk, reg)
    ELSE [created |-> TRUE] @@ Create(store, m, pk, reg)

\* mutant: the listed targets are added to the members
SetM2M_Add(store, m, pk, f, value) ==
    IF \E k \in 1..Len(value) : value[k] = NotAKey
    THEN [exc |-> Exc("ValueError", "Field 'id' expected a number but got 'abc'."),
          db |-> store]
    ELSE [exc |-> NoExc,
          db |-> [store EXCEPT !.tables[m][pk][f] =
                     @ \cup ({value[k] : k \in 1..Len(value)}
                                \cap DOMAIN store.tables[ManyToMany(m)[f]])]]

\* getattr(obj, field_name).set(related_model.objects.filter(pk__in=value))
SetM2M(store, m, pk, f, value) ==
    IF \E k \in 1..Len(value) : value[k] = NotAKey
    THEN [exc |-> Exc("ValueError", "Field 'id' expected a number but got 'abc'."),
          db |-> store]
    ELSE [exc |-> NoExc,
          db |-> [store EXCEPT !.tables[m][pk][f] =
                     {value[k] : k \in 1..Len(value)}
                         \cap DOMAIN store.tables[ManyToMany(m)[f]]]]

\* mutant: the `if value:` test is missing, an empty list is applied too
RECURSIVE ApplyM2M_Always(_, _, _, _)
ApplyM2M_Always(store, m, pk, m2m) ==
    IF Len(m2m) = 0 THEN [exc |-> NoExc, db |-> store]
    ELSE LET r == SetM2M(store, m, pk, m2m[1][1], m2m[1][2])
         IN  IF r.exc.type # "" THEN r ELSE ApplyM2M_Always(r.db, m, pk, Tail(m2m))

\* for field_name, value in many_to_many_fields.items(): if value: ... .set(...)
RECURSIVE ApplyM2M(_, _, _, _)
ApplyM2M(store, m, pk, m2m) ==
    IF Len(m2m) = 0 THEN [exc |-> NoExc, db |-> store]
    ELSE IF Len(m2m[1][2]) = 0 THEN ApplyM2M(store, m, pk, Tail(m2m))
    ELSE LET r == SetM2M(store, m, pk, m2m[1][1], m2m[1][2])
         IN  IF r.exc.type # "" THEN r ELSE ApplyM2M(r.db, m, pk, Tail(m2m))

----------------------------------------------------------------------------
(* import_fixture_file: the body of the loop over the items *)

\* a YAML item that is a mapping; any other item (a scalar, a list, null) is
\* written [scalar |-> ...]
IsMapping(item) == "scalar" \notin DOMAIN item

\* many_to_many_fields: the fields the model declares many-to-many
many_to_many_fields(m, fields) ==
    LET IsM2M(p) == p[1] \in DOMAIN ManyToMany(m)
    IN  SelectSeq(fields, IsM2M)

\* one entry of regular_fields: a ForeignKey value is replaced by the stored
\* object when the lookup finds one and kept as it is when it does not
Resolve(store, m, p) ==
    IF p[1] \in DOMAIN ForeignKeys(m) /\ p[2] # None
    THEN [name |-> p[1], value |-> p[2],
          instance |-> Exists(store, ForeignKeys(m)[p[1]], p[2])]
    ELSE [name |-> p[1], value |-> p[2], instance |-> FALSE]

regular_fields(store, m, fields) ==
    LET NotM2M(p) == p[1] \notin DOMAIN ManyToMany(m)
        regs == SelectSeq(fields, NotM2M)
    IN  [k \in 1..Len(regs) |-> Resolve(store, m, regs[k])]

\* the label the IntegrityError handler derives from the error text
Classify(error_str) ==
    IF Contains(Lower(error_str), "unique constraint") THEN "Unique constraint violation - "
    ELSE IF Contains(Lower(error_str), "foreign key") THEN "Foreign key constraint violation - "
    ELSE IF Contains(Lower(error_str), "not-null constraint") THEN "Not-null constraint violation - "
    ELSE ""

ItemPrefix(i, model_path, pk) ==
    "Item " \o ToString(i) \o " (" \o model_path \o " pk=" \o pk \o "): "

\* except IntegrityError as e: (inside the skip branch)
IntegrityHandler(store, i, model_path, pk, e) ==
    [db |-> store, created |-> 0, updated |-> 0, skipped |-> 1,
     errors |-> <<ItemPrefix(i, model_path, Str(pk)) \o Classify(e.text) \o e.text>>,
     raised |-> FALSE]

\* mutant: the handler lets the exception leave the call
ExceptionHandler_Reraises(store, i, item, e, created, updated) ==
    [db |-> store, created |-> created, updated |-> updated, skipped |-> 0,
     errors |-> <<>>, raised |-> TRUE]

\* except Exception as e: (around the whole item); created and updated are
\* the increments the try block made before it raised
ExceptionHandler(store, i, item, e, created, updated) ==
    IF ~IsMapping(item)
    THEN \* item.get raises AttributeError inside the handler
         [db |-> store, created |-> created, updated |-> updated, skipped |-> 1,
          errors |-> <<>>, raised |-> TRUE]
    ELSE [db |-> store, created |-> created, updated |-> updated, skipped |-> 1,
          errors |-> <<ItemPrefix(i,
                          IF "model" \in DOMAIN item THEN item.model ELSE "unknown",
                          IF "pk" \in DOMAIN item THEN Str(item.pk) ELSE "unknown")
                       \o "[" \o e.type \o "] " \o e.text>>,
          raised |-> FALSE]

\* mutant: the block is not atomic, a failure keeps what was written
Atomic_NoRollback(entered, left, failed) == left

\* with transaction.atomic(): what storage holds when the block is left
Atomic(entered, left, failed) == IF failed THEN [entered EXCEPT !.seq = left.seq] ELSE left

\* if duplicate_handling == "overwrite":
OverwriteBranch(store, i, item, m, pk, reg, m2m) ==
    LET r == update_or_create(store, m, pk, reg)
        c == IF r.created THEN 1 ELSE 0
        s == ApplyM2M(r.db, m, r.pk, m2m)
    IN  IF r.exc.type # "" THEN ExceptionHandler(r.db, i, item, r.exc, 0, 0)
        ELSE IF s.exc.type # "" THEN ExceptionHandler(s.db, i, item, s.exc, c, 1 - c)
        ELSE [db |-> s.db, created |-> c, updated |-> 1 - c, skipped |-> 0,
              errors |-> <<>>, raised |-> FALSE]

\* mutant: the duplicate check never finds the stored object
existing_obj_Never(store, m, pk) == FALSE

\* existing_obj = model_class.objects.filter(pk=pk).first(); if existing_obj:
existing_obj(store, m, pk) == Exists(store, m, pk)

\* mutant: the duplicate is reported as an error as well
SkippedDuplicate_Reported(store, i, item) ==
    [db |-> store, created |-> 0, updated |-> 0, skipped |-> 1,
     errors |-> <<"Item " \o ToString(i) \o ": duplicate">>, raised |-> FALSE]

\* the duplicate is counted as skipped and nothing else happens
SkippedDuplicate(store, i, item) ==
    [db |-> store, created |-> 0, updated |-> 0, skipped |-> 1,
     errors |-> <<>>, raised |-> FALSE]

\* else:  # skip
SkipBranch(store, i, item, m, pk, reg, m2m) ==
    LET r == Create(store, m, pk, reg)
        s == ApplyM2M(r.db, m, r.pk, m2m)
    IN  IF existing_obj(store, m, pk)
        THEN SkippedDuplicate(store, i, item)
        ELSE IF r.exc.type = "IntegrityError"
        THEN IntegrityHandler(Atomic(store, r.db, TRUE), i, item.model, pk, r.exc)
        ELSE IF r.exc.type # ""
        THEN ExceptionHandler(Atomic(store, r.db, TRUE), i, item, r.exc, 0, 0)
        ELSE IF s.exc.type # ""
        THEN ExceptionHandler(Atomic(store, s.db, TRUE), i, item, s.exc, 1, 0)
        ELSE [db |-> Atomic(store, s.db, FALSE), created |-> 1, updated |-> 0,
              skipped |-> 0, errors |-> <<>>, raised |-> FALSE]

\* the try block of one item and its handlers: the storage afterwards, the
\* increments of the counters, the error messages appended, and whether an
\* exception leaves import_fixture_file
ImportRecord(store, i, item, policy) ==
    IF ~IsMapping(item)
    THEN ExceptionHandler(store, i, item,
             Exc("TypeError", "string indices must be integers"), 0, 0)
    ELSE IF "model" \notin DOMAIN item
    THEN ExceptionHandler(store, i, item, Exc("KeyError", "'model'"), 0, 0)
    ELSE
    LET parts == Split(item.model, ".")
        m == IF Len(parts) = 2 THEN get_model(parts[1], parts[2]) ELSE ""
        pk == IF "pk" \in DOMAIN item THEN item.pk ELSE None
        fields == IF "fields" \in DOMAIN item THEN item.fields ELSE <<>>
    IN  IF Len(parts) > 2
        THEN ExceptionHandler(store, i, item,
                 Exc("ValueError", "too many values to unpack (expected 2)"), 0, 0)
        ELSE IF Len(parts) < 2
        THEN ExceptionHandler(store, i, item,
                 Exc("ValueError", "not enough values to unpack (expected 2, got 1)"), 0, 0)
        ELSE IF m = ""
        THEN ExceptionHandler(store, i, item,
                 Exc("LookupError", "No installed app or model '" \o item.model \o "'"), 0, 0)
        ELSE IF policy = "overwrite"
        THEN OverwriteBranch(store, i, item, m, pk,
                 regular_fields(store, m, fields), many_to_many_fields(m, fields))
        ELSE SkipBranch(store, i, item, m, pk,
                 regular_fields(store, m, fields), many_to_many_fields(m, fields))

----------------------------------------------------------------------------
(* The inputs: fixture documents and the storage they are imported into *)

\* longest fixture list
MaxRecords == 2

Field(name, value) == <<name, value>>

\* the set of the elements of a list
ListedKeys(v) == {v[n] : n \in 1..Len(v)}

Items ==
    { [model |-> "sources.Company", pk |-> 1,
       fields |-> <<Field("name", "Roland"), Field("notes", "")>>],
      [model |-> "sources.Company", pk |-> 2,
       fields |-> <<Field("name", "Roland"), Field("notes", "")>>],
      [model |-> "sources.Company", pk |-> 1,
       fields |-> <<Field("name", "Korg"), Field("notes", "")>>],
      [model |-> "sources.Product", pk |-> 1,
       fields |-> <<Field("name", "JV-1080"), Field("company", 1), Field("notes", "")>>],
      [model |-> "sources.Product", pk |-> 2,
       fields |-> <<Field("name", "M1"), Field("company", 999), Field("notes", "")>>],
      [model |-> "games.GameTag", pk |-> 1,
       fields |-> <<Field("name", "Zelda"), Field("slug", ""), Field("description", "")>>],
      [model |-> "games.Game", pk |-> 5,
       fields |-> <<Field("title", "Ocarina of Time"), Field("album_artists", <<>>),
                    Field("tags", <<1, 7>>)>>],
      [model |-> "games.Game", pk |-> 5,
       fields |-> <<Field("title", "Ocarina of Time"), Field("album_artists", <<>>),
                    Field("tags", <<>>)>>],
      [model |-> "games.Game", pk |-> 6,
       fields |-> <<Field("title", "Majora's Mask"), Field("tags", <<NotAKey>>)>>],
      [model |-> "songs.Person",
       fields |-> <<Field("name", "Koji Kondo")>>],
      [scalar |-> "oops"],
      [pk |-> 3, fields |-> <<Field("name", "Yamaha")>>],
      [model |-> "games.Platform", pk |-> 1, fields |-> <<Field("name", "SNES")>>],
      [model |-> "vgm_source_database.games.GameTag", pk |-> 1,
       fields |-> <<Field("name", "Zelda"), Field("slug", "zelda"), Field("description", "")>>] }

RECURSIVE Lists(_)
Lists(n) ==
    IF n = 0 THEN {<<>>}
    ELSE Lists(n - 1) \cup {Append(l, item) : l \in {x \in Lists(n - 1) : Len(x) = n - 1},
                                              item \in Items}

\* what yaml.safe_load returns: a list of items, null (an empty file) or a mapping
Documents ==
    {[kind |-> "list", items |-> l] : l \in Lists(MaxRecords)}
        \cup {[kind |-> "null", items |-> <<>>], [kind |-> "mapping", items |-> <<>>]}

SeedDb ==
    [EmptyDb EXCEPT
        !.tables["Company"] = (1 :> [name |-> "Roland", notes |-> ""]),
        !.tables["GameTag"] =
            (1 :> [name |-> "Zelda", slug |-> "zelda", description |-> ""])
            @@ (2 :> [name |-> "Mario", slug |-> "mario", description |-> ""]),
        !.tables["Game"] =
            (5 :> [title |-> "Ocarina of Time", release_date |-> None,
                   release_year |-> None, notes |-> "", album_artists |-> {},
                   tags |-> {1, 2}])]

NewStats == [total |-> 0, created |-> 0, updated |-> 0, skipped |-> 0, errors |-> <<>>]

----------------------------------------------------------------------------
(* The builder's state after CSVConverter.__init__, and before any call    *)

NewConverter ==
    [gametags |-> <<>>,       \* name -> [pk, slug]
     companies |-> <<>>,      \* name -> pk
     products |-> <<>>,       \* <<name, company_name>> -> pk
     banks |-> <<>>,          \* <<name, product_name, company_name>> -> pk
     games |-> <<>>,          \* title -> pk
     game_to_tag |-> <<>>,    \* title -> tag name
     skipped_lines |-> <<>>,
     gametag_pk |-> 1, company_pk |-> 1, product_pk |-> 1, bank_pk |-> 1,
     game_pk |-> 1, soundsource_pk |-> 1,
     all_games |-> <<>>,
     all_sound_sources |-> <<>>]

\* the locals of process_csv_file; current_game_title None is "",
\* current_game_data None is <<>>
NoLocals ==
    [file_no |-> 0, name |-> "", tag_name |-> "", games |-> <<>>, sound_sources |-> <<>>,
     current_game_title |-> "", current_game_data |-> <<>>, row_idx |-> 2]

NoOutput ==
    [gametags |-> <<>>, companies |-> <<>>, products |-> <<>>, banks |-> <<>>,
     games |-> <<>>, soundsources |-> <<>>]

BuilderIdle ==
    /\ csv_dir = {}
    /\ csv_read = <<>>
    /\ cv = NewConverter
    /\ loc = NoLocals
    /\ out = NoOutput
    /\ bpc = "idle"

NoOptions == [dir_exists |-> TRUE, file |-> "", dry_run |-> FALSE, error_file |-> FALSE]

NoExportOptions == [app |-> "", format |-> "yaml"]

CommandsIdle ==
    /\ options = NoOptions
    /\ export_options = NoExportOptions
    /\ epos = 1
    /\ written = <<>>
    /\ pos = 1
    /\ imported = <<>>
    /\ error_file = <<>>
    /\ captured = <<>>
    /\ cpc = "idle"
    /\ origin = EmptyDb

----------------------------------------------------------------------------
(* The importer as a state machine: one call of import_fixture_file, then  *)
(* a second call on the same file.  The builder does not run.              *)

Init ==
    /\ BuilderIdle
    /\ CommandsIdle
    /\ fixture_data \in Documents
    /\ duplicate_handling \in {"skip", "overwrite"}
    /\ db \in {EmptyDb, SeedDb}
    /\ idx = 1
    /\ stats = NewStats
    /\ pc = "start"
    /\ pass = 1
    /\ first = [stats |-> NewStats, db |-> EmptyDb]
    /\ before = [stats |-> NewStats, db |-> db]

\* lines 40-50: load the document, return early or raise, or count the items
Load ==
    /\ pc = "start"
    /\ pc' = IF fixture_data.kind = "null" \/ (fixture_data.kind = "list" /\ Len(fixture_data.items) = 0)
             THEN "returned"
             ELSE IF fixture_data.kind # "list" THEN "raised"
             ELSE "loop"
    /\ stats' = IF pc' = "loop" THEN [stats EXCEPT !.total = Len(fixture_data.items)] ELSE stats
    /\ UNCHANGED <<fixture_data, duplicate_handling, db, idx, pass, first, before>>
    /\ UNCHANGED <<builder_vars, command_vars>>

\* lines 53-174: one iteration of the loop
ProcessItem ==
    /\ pc = "loop"
    /\ idx <= Len(fixture_data.items)
    /\ LET r == ImportRecord(db, idx, fixture_data.items[idx], duplicate_handling)
       IN  /\ db' = r.db
           /\ stats' = [stats EXCEPT !.created = @ + r.created,
                                     !.updated = @ + r.updated,
                                     !.skipped = @ + r.skipped,
                                     !.errors = @ \o r.errors]
           /\ pc' = IF r.raised THEN "raised" ELSE "loop"
    /\ before' = [stats |-> stats, db |-> db]
    /\ idx' = idx + 1
    /\ UNCHANGED <<fixture_data, duplicate_handling, pass, first>>
    /\ UNCHANGED <<builder_vars, command_vars>>

\* line 176: return stats
Return ==
    /\ pc = "loop"
    /\ idx > Len(fixture_data.items)
    /\ pc' = "returned"
    /\ UNCHANGED <<fixture_data, duplicate_handling, db, idx, stats, pass, first, before>>
    /\ UNCHANGED <<builder_vars, command_vars>>

\* the same fixture file is imported again under the same policy
ImportAgain ==
    /\ pc = "returned"
    /\ pass = 1
    /\ pass' = 2
    /\ first' = [stats |-> stats, db |-> db]
    /\ stats' = NewStats
    /\ idx' = 1
    /\ pc' = "start"
    /\ before' = [stats |-> NewStats, db |-> db]
    /\ UNCHANGED <<fixture_data, duplicate_handling, db>>
    /\ UNCHANGED <<builder_vars, command_vars>>

Next == Load \/ ProcessItem \/ Return \/ ImportAgain

Spec == Init /\ [][Next]_vars

----------------------------------------------------------------------------
(* The fixture builder: convert_csv_to_yaml.py, class CSVConverter.        *)
(* A CSV row is a record of its six columns (Company stands for the column *)
(* "Company/Manufacturer", PathBank for "Path/Bank").  A string that the   *)
(* code replaces by None when empty (`x if x else None`) and afterwards    *)
(* only tests for truth is kept as the empty string.  The star glyph       *)
(* U+2605 is written "*".                                                  *)

\* printable ASCII in code-point order (without the grave accent), for the
\* comparisons of sorted()
Ascii ==
    " !\"#$%&'()*+,-./0123456789:;<=>?@ABCDEFGHIJKLMNOPQRSTUVWXYZ[\\]^_abcdefghijklmnopqrstuvwxyz{|}~"

Ord(c) == CHOOSE i \in 1..Len(Ascii) : Char(Ascii, i) = c

\* a < b for str
RECURSIVE StrLess(_, _)
StrLess(a, b) ==
    IF Len(b) = 0 THEN FALSE
    ELSE IF Len(a) = 0 THEN TRUE
    ELSE IF Char(a, 1) = Char(b, 1) THEN StrLess(SubSeq(a, 2, Len(a)), SubSeq(b, 2, Len(b)))
    ELSE Ord(Char(a, 1)) < Ord(Char(b, 1))

\* a < b for tuples of str
RECURSIVE TupleLess(_, _)
TupleLess(a, b) ==
    IF Len(b) = 0 THEN FALSE
    ELSE IF Len(a) = 0 THEN TRUE
    ELSE IF a[1] = b[1] THEN TupleLess(Tail(a), Tail(b))
    ELSE StrLess(a[1], b[1])

\* sorted(S) as a sequence, for a set of str and for a set of tuples of str
SortedStrings(S) ==
    [i \in 1..Cardinality(S) |->
        CHOOSE a \in S : Cardinality({b \in S : StrLess(b, a)}) = i - 1]

SortedTuples(S) ==
    [i \in 1..Cardinality(S) |->
        CHOOSE a \in S : Cardinality({b \in S : TupleLess(b, a)}) = i - 1]

\* str.strip()
Strip(s) == StripChars(s, " ")

\* str.startswith(prefix)
StartsWith(s, prefix) == Len(s) >= Len(prefix) /\ SubSeq(s, 1, Len(prefix)) = prefix

\* str.replace(old, "")
RECURSIVE Remove(_, _)
Remove(s, old) ==
    IF Len(s) = 0 THEN ""
    ELSE IF StartsWith(s, old) THEN Remove(SubSeq(s, Len(old) + 1, Len(s)), old)
    ELSE Char(s, 1) \o Remove(SubSeq(s, 2, Len(s)), old)

Digits == "0123456789"
IsDigit(c) == Len(c) = 1 /\ Contains(Digits, c)
DigitValue(c) == (CHOOSE i \in 1..Len(Digits) : Char(Digits, i) = c) - 1

\* re.search(r"\((\d{4})\)", s): the positions where the pattern matches
YearMatches(s) ==
    {i \in 1..(Len(s) - 5) :
        /\ Char(s, i) = "("
        /\ \A d \in 1..4 : IsDigit(Char(s, i + d))
        /\ Char(s, i + 5) = ")"}

\* a search that never finds a year
ExtractYear_Never(s) == None

\* int(year_match.group(1)) of the first match, None without a match
ExtractYear(s) ==
    IF YearMatches(s) = {} THEN None
    ELSE LET i == CHOOSE k \in YearMatches(s) : \A j \in YearMatches(s) : k <= j
         IN  1000 * DigitValue(Char(s, i + 1)) + 100 * DigitValue(Char(s, i + 2))
                 + 10 * DigitValue(Char(s, i + 3)) + DigitValue(Char(s, i + 4))

\* CSVConverter.slugify
slugify(text) == CollapseDashes(StripPunctuation(Strip(Lower(text))))

\* section_patterns of is_game_title_row
TitleSectionPatterns ==
    {"STUFF TO FIND", "SOURCES", "NOTES", "DESCRIPTION", "TABLE OF CONTENTS",
     "JUMP TO:", "SECTION", "BASE GAME"}

\* section_patterns of is_section_header
HeaderSectionPatterns == TitleSectionPatterns \cup {"PLEASE REMEMBER"}

game_indicators ==
    {":", "(", "HD", "Remaster", "Remake", "Edition", "Wii", "PlayStation", "Xbox",
     "Nintendo", "PC", "Switch", "3DS", "GameCube", "Arcade", "SNES", "N64", "*"}

is_game_title_row(row) ==
    LET company == Strip(row.Company)
        product == Strip(row.Product)
        path_bank == Strip(row.PathBank)
        program == Strip(row.Program)
        has_release_date == product # "" /\ Contains(Lower(product), "(released:")
        other_cols_filled ==
            Cardinality({k \in 1..3 :
                LET col == <<product, path_bank, program>>[k]
                IN  col # "" /\ Len(col) > 5 /\ ~has_release_date})
    IN  IF company = "" THEN FALSE
        ELSE IF \E pattern \in TitleSectionPatterns : Contains(Upper(company), pattern)
        THEN FALSE
        ELSE IF StartsWith(company, "Please remember") \/ StartsWith(company, "(Click")
        THEN FALSE
        ELSE IF Len(company) < 10 THEN FALSE
        ELSE IF /\ (product = "" \/ has_release_date) /\ path_bank = "" /\ program = ""
                /\ \/ \E indicator \in game_indicators : Contains(company, indicator)
                   \/ Len(company) >= 20
        THEN TRUE
        ELSE other_cols_filled <= 1 /\ Len(company) >= 15

is_section_header(row) ==
    LET company == Upper(Strip(row.Company))
    IN  \E pattern \in HeaderSectionPatterns : Contains(company, pattern)

\* " | ".join(parts)
RECURSIVE Join(_, _)
Join(sep, parts) ==
    IF Len(parts) = 0 THEN ""
    ELSE IF Len(parts) = 1 THEN parts[1]
    ELSE parts[1] \o sep \o Join(sep, Tail(parts))

\* parse_sound_source_row: <<>> for None, else <<sound_source>>
parse_sound_source_row(row, current_game_title) ==
    LET company == Strip(row.Company)
        product == Strip(row.Product)
        path_bank == Strip(row.PathBank)
        program == Strip(row.Program)
        notes == Strip(row.Notes)
        examples == Strip(row.Examples)
        name == IF program # "" THEN program ELSE company
        full_notes ==
            (IF notes # "" THEN <<notes>> ELSE <<>>)
            \o (IF examples # "" THEN <<"Examples: " \o examples>> ELSE <<>>)
            \o (IF path_bank # "" /\ ~Contains(name, path_bank)
                THEN <<"Path/Bank: " \o path_bank>> ELSE <<>>)
    IN  IF company = "" /\ product = "" THEN <<>>
        ELSE IF is_section_header(row) THEN <<>>
        ELSE IF is_game_title_row(row) THEN <<>>
        ELSE IF name = "" \/ Len(name) < 2 THEN <<>>
        ELSE <<[name |-> name,
                company |-> company,
                product |-> product,
                bank |-> path_bank,
                games |-> IF current_game_title # "" THEN <<current_game_title>> ELSE <<>>,
                notes |-> Join(" | ", full_notes)]>>

\* dict[key] = value and dict.get(key) (None for a missing key)
Put(dict, key, value) == (key :> value) @@ dict
Get(dict, key) == IF key \in DOMAIN dict THEN dict[key] ELSE None

\* process_csv_file, lines 244-271: the tag of the file and its GameTag
OpenedFile(c, stem) ==
    LET stripped == Strip(Remove(stem, "NEWER VGM Sound Sources - "))
        tag_name == IF stripped = "" THEN stem ELSE stripped
    IN  [cv |-> IF tag_name \notin DOMAIN c.gametags
                THEN [c EXCEPT !.gametags = Put(@, tag_name,
                                                [pk |-> c.gametag_pk, slug |-> slugify(tag_name)]),
                               !.gametag_pk = @ + 1]
                ELSE c,
         tag_name |-> tag_name]

\* company[:100]
Truncate(s, n) == SubSeq(s, 1, IF Len(s) < n THEN Len(s) ELSE n)

\* process_csv_file, lines 273-321: the body of the loop over the rows
ProcessedRow(c, l, row) ==
    LET game_title == Strip(row.Company)
        year_in_title == ExtractYear(game_title)
        release_year == IF year_in_title # None THEN year_in_title
                        ELSE ExtractYear(Strip(row.Product))
        saved == IF l.current_game_title # "" /\ l.current_game_data # <<>>
                 THEN l.games \o l.current_game_data ELSE l.games
        sound_source == parse_sound_source_row(row, l.current_game_title)
        company == Strip(row.Company)
        next == [l EXCEPT !.row_idx = @ + 1]
    IN  IF is_game_title_row(row)
        THEN [cv |-> c,
              loc |-> IF game_title # ""
                      THEN [next EXCEPT
                              !.games = saved,
                              !.current_game_title = game_title,
                              !.current_game_data =
                                  <<[title |-> game_title, tags |-> <<l.tag_name>>,
                                     release_date |-> None, release_year |-> release_year,
                                     album_artists |-> <<>>, notes |-> ""]>>]
                      ELSE [next EXCEPT !.games = saved]]
        ELSE IF l.current_game_title # ""
        THEN IF sound_source # <<>>
             THEN [cv |-> c, loc |-> [next EXCEPT !.sound_sources = @ \o sound_source]]
             ELSE IF company # ""
             THEN [cv |-> [c EXCEPT !.skipped_lines = Append(@,
                              [file |-> l.name, row |-> l.row_idx,
                               content |-> Truncate(company, 100),
                               reason |-> "Could not parse as sound source or game title"])],
                   loc |-> next]
             ELSE [cv |-> c, loc |-> next]
        ELSE [cv |-> c, loc |-> next]

\* process_csv_file, lines 323-328: save the last game, extend the totals
ClosedFile(c, l) ==
    LET games == IF l.current_game_title # "" /\ l.current_game_data # <<>>
                 THEN l.games \o l.current_game_data ELSE l.games
    IN  [c EXCEPT !.all_games = @ \o games,
                  !.all_sound_sources = @ \o l.sound_sources]

\* resolve_relationships, lines 335-340
RECURSIVE ResolveGames(_, _)
ResolveGames(c, games) ==
    IF games = <<>> THEN c
    ELSE LET title == Head(games).title
         IN  ResolveGames(
                 IF title \notin DOMAIN c.games
                 THEN [c EXCEPT !.games = Put(@, title, c.game_pk),
                                !.game_to_tag = Put(@, title, Head(games).tags[1]),
                                !.game_pk = @ + 1]
                 ELSE c,
                 Tail(games))

\* resolve_relationships, lines 343-365
\* mutant: the key counters are never advanced
RECURSIVE ResolveSources_OneKey(_, _)
ResolveSources_OneKey(c, sources) ==
    IF sources = <<>> THEN c
    ELSE LET ss == Head(sources)
             named == ss.product # "" /\ ss.company # ""
         IN  ResolveSources_OneKey(
                 [c EXCEPT !.companies = IF ss.company # "" /\ ss.company \notin DOMAIN @
                                         THEN Put(@, ss.company, c.company_pk) ELSE @,
                           !.products = IF named /\ <<ss.product, ss.company>> \notin DOMAIN @
                                        THEN Put(@, <<ss.product, ss.company>>, c.product_pk)
                                        ELSE @,
                           !.banks = IF /\ named /\ ss.bank # ""
                                        /\ <<ss.bank, ss.product, ss.company>> \notin DOMAIN @
                                     THEN Put(@, <<ss.bank, ss.product, ss.company>>, c.bank_pk)
                                     ELSE @],
                 Tail(sources))

RECURSIVE ResolveSources(_, _)
ResolveSources(c, sources) ==
    IF sources = <<>> THEN c
    ELSE LET ss == Head(sources)
             product_key == <<ss.product, ss.company>>
             bank_key == <<ss.bank, ss.product, ss.company>>
             c1 == IF ss.company # "" /\ ss.company \notin DOMAIN c.companies
                   THEN [c EXCEPT !.companies = Put(@, ss.company, c.company_pk),
                                  !.company_pk = @ + 1]
                   ELSE c
             c2 == IF ss.product # "" /\ ss.company # "" /\ product_key \notin DOMAIN c1.products
                   THEN [c1 EXCEPT !.products = Put(@, product_key, c1.product_pk),
                                   !.product_pk = @ + 1]
                   ELSE c1
             c3 == IF /\ ss.bank # "" /\ ss.product # "" /\ ss.company # ""
                      /\ bank_key \notin DOMAIN c2.banks
                   THEN [c2 EXCEPT !.banks = Put(@, bank_key, c2.bank_pk),
                                   !.bank_pk = @ + 1]
                   ELSE c2
         IN  ResolveSources(c3, Tail(sources))

resolve_relationships(c) == ResolveSources(ResolveGames(c, c.all_games), c.all_sound_sources)

\* one entry of a fixture collection
Entry(model, pk, fields) == [model |-> model, pk |-> pk, fields |-> fields]

\* list comprehension with a filter: the elements of seq that satisfy Keep
RECURSIVE Filter(_, _)
Filter(seq, keep) ==
    IF seq = <<>> THEN <<>>
    ELSE (IF keep[Head(seq)] THEN <<Head(seq)>> ELSE <<>>) \o Filter(Tail(seq), keep)

\* generate_yaml, lines 370-380
gametags_yaml(c) ==
    LET names == SortedStrings(DOMAIN c.gametags)
    IN  [k \in 1..Len(names) |->
            Entry("vgm_source_database.games.GameTag", c.gametags[names[k]].pk,
                  <<Field("name", names[k]), Field("slug", c.gametags[names[k]].slug),
                    Field("description", "")>>)]

\* generate_yaml, lines 383-392
companies_yaml(c) ==
    LET names == SortedStrings(DOMAIN c.companies)
    IN  [k \in 1..Len(names) |->
            Entry("vgm_source_database.sources.Company", c.companies[names[k]],
                  <<Field("name", names[k]), Field("notes", "")>>)]

\* generate_yaml, lines 395-407
products_yaml(c) ==
    LET keys == SortedTuples(DOMAIN c.products)
        kept == Filter(keys, [key \in DOMAIN c.products |-> Get(c.companies, key[2]) # None])
    IN  [k \in 1..Len(kept) |->
            Entry("vgm_source_database.sources.Product", c.products[kept[k]],
                  <<Field("name", kept[k][1]), Field("company", c.companies[kept[k][2]]),
                    Field("notes", "")>>)]

\* generate_yaml, lines 410-423
banks_yaml(c) ==
    LET keys == SortedTuples(DOMAIN c.banks)
        kept == Filter(keys, [key \in DOMAIN c.banks |->
                                 Get(c.products, <<key[2], key[3]>>) # None])
    IN  [k \in 1..Len(kept) |->
            Entry("vgm_source_database.sources.Bank", c.banks[kept[k]],
                  <<Field("name", kept[k][1]),
                    Field("product", c.products[<<kept[k][2], kept[k][3]>>]),
                    Field("notes", "")>>)]

\* generate_yaml, lines 426-448
RECURSIVE games_yaml(_, _)
games_yaml(c, games) ==
    IF games = <<>> THEN <<>>
    ELSE LET game_data == Head(games)
             game_pk == Get(c.games, game_data.title)
             tags == Filter(game_data.tags,
                            [t \in ListedKeys(game_data.tags) |-> t \in DOMAIN c.gametags])
             tag_pks == [k \in 1..Len(tags) |-> c.gametags[tags[k]].pk]
         IN  (IF game_pk # None
              THEN <<Entry("vgm_source_database.games.Game", game_pk,
                           <<Field("title", game_data.title),
                             Field("release_date", game_data.release_date),
                             Field("release_year", game_data.release_year),
                             Field("album_artists", <<>>),
                             Field("tags", tag_pks),
                             Field("notes", game_data.notes)>>)>>
              ELSE <<>>)
             \o games_yaml(c, Tail(games))

\* mutant: the test of line 480 never rejects a sound source
Invalid_Never(bank_pk, product_pk) == FALSE

\* generate_yaml, line 480: `if not bank_pk and not product_pk`
Invalid(bank_pk, product_pk) == bank_pk = None /\ product_pk = None

\* generate_yaml, lines 451-503: the loop over the sound sources, which also
\* adds fallback products to self.products; returns the converter and the list
RECURSIVE soundsources_yaml(_, _, _)
soundsources_yaml(c, sources, yaml) ==
    IF sources = <<>> THEN [cv |-> c, yaml |-> yaml]
    ELSE LET ss == Head(sources)
             bank_pk == IF ss.bank # "" /\ ss.product # "" /\ ss.company # ""
                        THEN Get(c.banks, <<ss.bank, ss.product, ss.company>>) ELSE None
             resolved_pk == IF ss.product # "" /\ ss.company # ""
                            THEN Get(c.products, <<ss.product, ss.company>>) ELSE None
             fallback == /\ bank_pk = None /\ resolved_pk = None
                         /\ ss.company # "" /\ ss.company \in DOMAIN c.companies
             product_key == <<ss.company, ss.company>>
             c1 == IF fallback /\ product_key \notin DOMAIN c.products
                   THEN [c EXCEPT !.products = Put(@, product_key, c.product_pk),
                                  !.product_pk = @ + 1]
                   ELSE c
             product_pk == IF fallback THEN c1.products[product_key] ELSE resolved_pk
             titles == Filter(ss.games, [t \in ListedKeys(ss.games) |-> t \in DOMAIN c.games])
             game_pks == [k \in 1..Len(titles) |-> c.games[titles[k]]]
         IN  IF Invalid(bank_pk, product_pk)
             THEN soundsources_yaml(c1, Tail(sources), yaml)
             ELSE soundsources_yaml(
                      [c1 EXCEPT !.soundsource_pk = @ + 1], Tail(sources),
                      Append(yaml,
                             Entry("vgm_source_database.sources.SoundSource", c1.soundsource_pk,
                                   <<Field("name", ss.name), Field("bank", bank_pk),
                                     Field("product", product_pk), Field("discoverers", <<>>),
                                     Field("games", game_pks), Field("songs", <<>>),
                                     Field("notes", ss.notes)>>)))

\* generate_yaml, lines 367-519: the converter afterwards and the six files
generate_yaml(c) ==
    LET sources == soundsources_yaml(c, c.all_sound_sources, <<>>)
    IN  [cv |-> sources.cv,
         out |-> [gametags |-> gametags_yaml(c),
                  companies |-> companies_yaml(c),
                  products |-> products_yaml(c),
                  banks |-> banks_yaml(c),
                  games |-> games_yaml(c, c.all_games),
                  soundsources |-> sources.yaml]]

----------------------------------------------------------------------------
(* The builder's inputs and the builder as a state machine: one call of    *)
(* convert().  The importer does not run.                                  *)

\* most rows read from all files together
MaxRows == 3

Row(company, product, path_bank, program) ==
    [Company |-> company, Product |-> product, PathBank |-> path_bank,
     Program |-> program, Notes |-> "", Examples |-> ""]

Rows ==
    { Row("Zelda: Ocarina of Time", "", "", ""),
      Row("Super Mario Kart (1992)", "", "", ""),
      Row("Roland", "JV-1080", "Preset A", "Piano"),
      Row("Korg", "", "", "Bell"),
      Row("Korg", "Korg", "", "Pad"),
      Row("", "M1", "", "Organ"),
      Row("SOURCES", "", "", ""),
      Row("", "", "Preset B", "Strings") }

\* the stems of the files that match "NEWER VGM Sound Sources - *.csv"
Stems == {"NEWER VGM Sound Sources - Mario", "NEWER VGM Sound Sources - Zelda"}

\* sorted(csv_files)
SortedFiles == SortedStrings(csv_dir)

\* the number of rows read so far
RECURSIVE TotalRows(_)
TotalRows(read) == IF read = <<>> THEN 0 ELSE Len(Head(read).rows) + TotalRows(Tail(read))

BuildInit ==
    /\ fixture_data = [kind |-> "null", items |-> <<>>]
    /\ duplicate_handling = "skip"
    /\ db = EmptyDb
    /\ idx = 1
    /\ stats = NewStats
    /\ pc = "idle"
    /\ pass = 1
    /\ first = [stats |-> NewStats, db |-> EmptyDb]
    /\ before = [stats |-> NewStats, db |-> EmptyDb]
    /\ csv_dir \in SUBSET Stems
    /\ csv_read = <<>>
    /\ cv = NewConverter
    /\ loc = NoLocals
    /\ out = NoOutput
    /\ bpc = "start"
    /\ CommandsIdle

\* convert, lines 550-561: without a matching file the program exits
NoFiles ==
    /\ bpc = "start"
    /\ csv_dir = {}
    /\ bpc' = "exited"
    /\ UNCHANGED <<csv_dir, csv_read, cv, loc, out>>
    /\ UNCHANGED <<importer_vars, command_vars>>

\* convert, lines 567-568, and process_csv_file, lines 244-271: the next file
\* in sorted order is opened; a file without a header line is left at once
OpenFile ==
    /\ \/ bpc = "start" /\ csv_dir # {}
       \/ bpc = "files" /\ loc.file_no < Len(SortedFiles)
    /\ LET stem == SortedFiles[loc.file_no + 1]
           opened == OpenedFile(cv, stem)
       IN  /\ cv' = opened.cv
           /\ loc' = [NoLocals EXCEPT !.file_no = loc.file_no + 1,
                                      !.name = stem \o ".csv",
                                      !.tag_name = opened.tag_name]
           /\ csv_read' = Append(csv_read, [name |-> stem \o ".csv", rows |-> <<>>])
    /\ \E headers \in BOOLEAN : bpc' = IF headers THEN "rows" ELSE "files"
    /\ UNCHANGED <<csv_dir, out>>
    /\ UNCHANGED <<importer_vars, command_vars>>

\* process_csv_file, lines 273-321: one row is read and processed
ReadRow ==
    /\ bpc = "rows"
    /\ TotalRows(csv_read) < MaxRows
    /\ \E row \in Rows :
        LET r == ProcessedRow(cv, loc, row)
        IN  /\ cv' = r.cv
            /\ loc' = r.loc
            /\ csv_read' = [csv_read EXCEPT ![Len(csv_read)].rows = Append(@, row)]
    /\ UNCHANGED <<csv_dir, out, bpc>>
    /\ UNCHANGED <<importer_vars, command_vars>>

\* process_csv_file, lines 323-328: the end of the file
CloseFile ==
    /\ bpc = "rows"
    /\ cv' = ClosedFile(cv, loc)
    /\ bpc' = "files"
    /\ UNCHANGED <<csv_dir, csv_read, loc, out>>
    /\ UNCHANGED <<importer_vars, command_vars>>

\* convert, line 572
ResolveRelationships ==
    /\ bpc = "files"
    /\ loc.file_no = Len(SortedFiles)
    /\ cv' = resolve_relationships(cv)
    /\ bpc' = "resolved"
    /\ UNCHANGED <<csv_dir, csv_read, loc, out>>
    /\ UNCHANGED <<importer_vars, command_vars>>

\* convert, line 576
GenerateYaml ==
    /\ bpc = "resolved"
    /\ LET g == generate_yaml(cv)
       IN  /\ cv' = g.cv
           /\ out' = g.out
    /\ bpc' = "done"
    /\ UNCHANGED <<csv_dir, csv_read, loc>>
    /\ UNCHANGED <<importer_vars, command_vars>>

BuildNext == NoFiles \/ OpenFile \/ ReadRow \/ CloseFile \/ ResolveRelationships \/ GenerateYaml

BuildSpec == BuildInit /\ [][BuildNext]_vars

----------------------------------------------------------------------------
(* The classification of one row: process_csv_file reads one row of a file *)
(* it has just opened, or one row after a game-title row.                  *)

\* the rows that may come before the row that is classified
RowContexts == {<<>>, <<Row("Zelda: Ocarina of Time", "", "", "")>>}

\* the rows that are classified
RowInputs ==
    {Row(company, product, path_bank, program) :
        company \in {"", "Roland", "SOURCES", "Zelda: Ocarina", "Doom (1993) (2016)",
                     "Final Fantasy Seven", "Zelda: Ocarina of Time",
                     "please remember to credit",
                     "Super Mario Bros.: Special Edition (1988)"},
        product \in {"", "JV-1080", "(1998)", "(Released: 1998)"},
        path_bank \in {"", "Preset A"},
        program \in {"", "Piano", "Strings Ensemble"}}

RowStem == "NEWER VGM Sound Sources - Zelda"

\* the converter and the locals of process_csv_file after the file was
\* opened and the rows were read
RECURSIVE AfterRows(_)
AfterRows(rows) ==
    IF Len(rows) = 0
    THEN [cv |-> OpenedFile(NewConverter, RowStem).cv,
          loc |-> [NoLocals EXCEPT !.file_no = 1,
                                   !.name = RowStem \o ".csv",
                                   !.tag_name = OpenedFile(NewConverter, RowStem).tag_name]]
    ELSE ProcessedRow(AfterRows(SubSeq(rows, 1, Len(rows) - 1)).cv,
                      AfterRows(SubSeq(rows, 1, Len(rows) - 1)).loc,
                      rows[Len(rows)])

RowInit ==
    /\ fixture_data = [kind |-> "null", items |-> <<>>]
    /\ duplicate_handling = "skip"
    /\ db = EmptyDb
    /\ idx = 1
    /\ stats = NewStats
    /\ pc = "idle"
    /\ pass = 1
    /\ first = [stats |-> NewStats, db |-> EmptyDb]
    /\ before = [stats |-> NewStats, db |-> EmptyDb]
    /\ csv_dir = {RowStem}
    /\ \E context \in RowContexts :
           /\ csv_read = <<[name |-> RowStem \o ".csv", rows |-> context]>>
           /\ cv = AfterRows(context).cv
           /\ loc = AfterRows(context).loc
    /\ out = NoOutput
    /\ bpc = "rows"
    /\ CommandsIdle

\* process_csv_file, lines 273-321: the next row is read and processed
ClassifyRow ==
    /\ bpc = "rows"
    /\ csv_read[1].rows \in RowContexts
    /\ \E row \in RowInputs :
        LET r == ProcessedRow(cv, loc, row)
        IN  /\ cv' = r.cv
            /\ loc' = r.loc
            /\ csv_read' = [csv_read EXCEPT ![1].rows = Append(@, row)]
    /\ UNCHANGED <<csv_dir, out, bpc>>
    /\ UNCHANGED <<importer_vars, command_vars>>

RowNext == ClassifyRow

RowSpec == RowInit /\ [][RowNext]_vars

----------------------------------------------------------------------------
(* The management commands export_data and import_data, run one after the  *)
(* other on the same storage: config/management/commands.                  *)

\* mutant: products are imported before companies
fixture_order_ProductsFirst ==
    <<"games_gametags.yaml", "games_games.yaml", "songs_people.yaml", "songs_songs.yaml",
      "sources_products.yaml", "sources_companies.yaml", "sources_banks.yaml",
      "sources_soundsources.yaml">>

\* import_data, handle: the import order
fixture_order ==
    <<"games_gametags.yaml", "games_games.yaml", "songs_people.yaml", "songs_songs.yaml",
      "sources_companies.yaml", "sources_products.yaml", "sources_banks.yaml",
      "sources_soundsources.yaml">>

\* export_data, handle: the export order, a dictionary iterated in the order
\* of insertion
model_groups ==
    <<[app |-> "games", models |-> << <<"GameTag", "gametags">>, <<"Game", "games">> >>],
      [app |-> "songs", models |-> << <<"Person", "people">>, <<"Song", "songs">> >>],
      [app |-> "sources", models |-> << <<"Company", "companies">>, <<"Product", "products">>,
                                        <<"Bank", "banks">>, <<"SoundSource", "soundsources">> >>]>>

\* the two nested loops of export_data as one sequence of steps
export_steps ==
    LET Steps(g) == [k \in 1..Len(g.models) |->
                        [app_name |-> g.app, model_class |-> g.models[k][1],
                         filename |-> g.models[k][2]]]
    IN  Steps(model_groups[1]) \o Steps(model_groups[2]) \o Steps(model_groups[3])

\* output_dir / f"{app_name}_{filename}.yaml" or .json
output_file(step, output_format) ==
    step.app_name \o "_" \o step.filename \o "." \o output_format

\* queryset.count()
Count(store, m) == Cardinality(DOMAIN store.tables[m])

\* the keys of a set in increasing order
RECURSIVE KeysInOrder(_)
KeysInOrder(S) ==
    IF S = {} THEN <<>>
    ELSE LET least == CHOOSE k \in S : \A j \in S : k <= j
         IN  <<least>> \o KeysInOrder(S \ {least})

\* the fields the serializer writes for a model: the concrete fields, then
\* the many-to-many fields (created_at and updated_at are left out as in
\* PlainFields)
SerializedFields(m) ==
    CASE m = "GameTag" -> <<"name", "slug", "description">>
      [] m = "Game" -> <<"title", "release_date", "release_year", "notes",
                         "album_artists", "tags">>
      [] m = "Person" -> <<"name", "notes", "products">>
      [] m = "Song" -> <<"title", "game", "track_number", "notes", "composers", "arrangers">>
      [] m = "Company" -> <<"name", "notes">>
      [] m = "Product" -> <<"name", "company", "notes">>
      [] m = "Bank" -> <<"name", "product", "notes">>
      [] m = "SoundSource" -> <<"name", "bank", "product", "notes",
                                "discoverers", "games", "songs">>

\* one object as serialize("json", ...) and _write_yaml give it: the label
\* "app.model" in lower case, the key, and the fields with a ForeignKey as
\* the related key and a many-to-many field as the list of related keys
SerializedObject(store, step, pk) ==
    LET m == step.model_class
        row == store.tables[m][pk]
        fs == SerializedFields(m)
    IN  [model |-> step.app_name \o "." \o Lower(m),
         pk |-> pk,
         fields |-> [k \in 1..Len(fs) |->
                        Field(fs[k], IF fs[k] \in DOMAIN ManyToMany(m)
                                     THEN KeysInOrder(row[fs[k]])
                                     ELSE row[fs[k]])]]

\* the document written for one model: its objects, here in key order
serialize(store, step) ==
    LET keys == KeysInOrder(DOMAIN store.tables[step.model_class])
    IN  [kind |-> "list",
         items |-> [k \in 1..Len(keys) |-> SerializedObject(store, step, keys[k])]]

\* the counters and the error list after one more item
AddToStats(st, r) ==
    [st EXCEPT !.created = @ + r.created,
               !.updated = @ + r.updated,
               !.skipped = @ + r.skipped,
               !.errors = @ \o r.errors]

\* the loop of import_fixture_file from item i on; r is the outcome of item i
RECURSIVE ImportItems(_, _, _, _, _)
AfterItem(r, items, i, policy, st) ==
    IF r.raised THEN [db |-> r.db, stats |-> AddToStats(st, r), raised |-> TRUE]
    ELSE ImportItems(r.db, items, i + 1, policy, AddToStats(st, r))

ImportItems(store, items, i, policy, st) ==
    IF i > Len(items) THEN [db |-> store, stats |-> st, raised |-> FALSE]
    ELSE AfterItem(ImportRecord(store, i, items[i], policy), items, i, policy, st)

\* one whole call of import_fixture_file
import_fixture_file(store, doc, policy) ==
    IF doc.kind = "null" \/ (doc.kind = "list" /\ Len(doc.items) = 0)
    THEN [db |-> store, stats |-> NewStats, raised |-> FALSE]
    ELSE IF doc.kind # "list"
    THEN [db |-> store, stats |-> NewStats, raised |-> TRUE]
    ELSE ImportItems(store, doc.items, 1, policy,
                     [NewStats EXCEPT !.total = Len(doc.items)])

\* "=" * 80
Separator ==
    "================================================================================"

\* what _import_file writes after open(error_file, "w")
ErrorFileLines(errors) ==
    <<"Import Errors (" \o ToString(Len(errors)) \o " total)", Separator, "">> \o errors

\* if stats["errors"]: ... if error_file: open(error_file, "w") replaces the
\* file; otherwise the file stays as it is
WrittenErrorFile(opts, errors, lines) ==
    IF Len(errors) > 0 /\ opts.error_file THEN ErrorFileLines(errors) ELSE lines

\* _import_file after import_fixture_file has returned or raised r
AfterImport(r, opts, lines) ==
    IF r.raised
    THEN [db |-> r.db, stats |-> NewStats, error_file |-> lines, raised |-> TRUE]
    ELSE [db |-> r.db, stats |-> r.stats,
          error_file |-> WrittenErrorFile(opts, r.stats.errors, lines),
          raised |-> FALSE]

\* _import_file: the storage, the returned stats and the error file afterwards
import_file(store, doc, opts, policy, lines) ==
    IF opts.dry_run
    THEN [db |-> store, stats |-> NewStats, error_file |-> lines, raised |-> FALSE]
    ELSE AfterImport(import_fixture_file(store, doc, policy), opts, lines)

\* most fixture files in the fixture directory
MaxFiles == 2

\* what the fixture files hold
FileDocuments ==
    { [kind |-> "list", items |-> <<
          [model |-> "sources.Company", pk |-> 1,
           fields |-> <<Field("name", "Roland"), Field("notes", "")>>]>>],
      [kind |-> "list", items |-> <<
          [model |-> "sources.Product", pk |-> 2,
           fields |-> <<Field("name", "M1"), Field("company", 999), Field("notes", "")>>]>>],
      [kind |-> "list", items |-> <<
          [model |-> "sources.Product", pk |-> 1,
           fields |-> <<Field("name", "JV-1080"), Field("company", 1), Field("notes", "")>>],
          [model |-> "games.Game", pk |-> 6,
           fields |-> <<Field("title", "Majora's Mask"), Field("tags", <<NotAKey>>)>>]>>],
      [kind |-> "list", items |-> <<[scalar |-> "oops"]>>],
      [kind |-> "null", items |-> <<>>] }

CommandInit ==
    /\ fixture_data = [kind |-> "null", items |-> <<>>]
    /\ duplicate_handling \in {"skip", "overwrite"}
    /\ db = SeedDb
    /\ idx = 1
    /\ stats = NewStats
    /\ pc = "idle"
    /\ pass = 1
    /\ first = [stats |-> NewStats, db |-> EmptyDb]
    /\ before = [stats |-> NewStats, db |-> EmptyDb]
    /\ BuilderIdle
    /\ options \in [dir_exists : BOOLEAN, file : {"", "fixtures/extra.yaml"},
                    dry_run : BOOLEAN, error_file : BOOLEAN]
    /\ export_options \in [app : {"", "sources"}, format : {"yaml", "json"}]
    /\ epos = 1
    /\ written = <<>>
    /\ pos = 1
    /\ imported = <<>>
    /\ error_file = <<>>
    /\ captured = <<>>
    /\ cpc = "export"
    /\ origin = EmptyDb

\* export_data, lines 86-88: the app is filtered out
ExportSkipApp ==
    /\ cpc = "export"
    /\ epos <= Len(export_steps)
    /\ export_options.app # "" /\ export_steps[epos].app_name # export_options.app
    /\ epos' = epos + 1
    /\ UNCHANGED <<options, export_options, written, pos, imported, error_file, captured, cpc, origin>>
    /\ UNCHANGED <<importer_vars, builder_vars>>

\* export_data, lines 92-101: the model has no objects
ExportSkipEmpty ==
    /\ cpc = "export"
    /\ epos <= Len(export_steps)
    /\ ~(export_options.app # "" /\ export_steps[epos].app_name # export_options.app)
    /\ Count(db, export_steps[epos].model_class) = 0
    /\ epos' = epos + 1
    /\ UNCHANGED <<options, export_options, written, pos, imported, error_file, captured, cpc, origin>>
    /\ UNCHANGED <<importer_vars, builder_vars>>

\* export_data, lines 103-122: the objects of the model are written to a file
ExportWrite ==
    /\ cpc = "export"
    /\ epos <= Len(export_steps)
    /\ ~(export_options.app # "" /\ export_steps[epos].app_name # export_options.app)
    /\ Count(db, export_steps[epos].model_class) > 0
    /\ written' = Append(written,
                         [file |-> output_file(export_steps[epos], export_options.format),
                          count |-> Count(db, export_steps[epos].model_class),
                          data |-> serialize(db, export_steps[epos])])
    /\ epos' = epos + 1
    /\ UNCHANGED <<options, export_options, pos, imported, error_file, captured, cpc, origin>>
    /\ UNCHANGED <<importer_vars, builder_vars>>

\* export_data, lines 127-129; import_data is run next
ExportComplete ==
    /\ cpc = "export"
    /\ epos > Len(export_steps)
    /\ cpc' = "import_data"
    /\ UNCHANGED <<options, export_options, epos, written, pos, imported, error_file, captured, origin>>
    /\ UNCHANGED <<importer_vars, builder_vars>>

\* import_data, lines 71-88: the directory is missing, or one file or the
\* directory is to be imported
StartImport ==
    /\ cpc = "import_data"
    /\ cpc' = IF ~options.dir_exists THEN "raised"
              ELSE IF options.file # "" THEN "file"
              ELSE "directory"
    /\ UNCHANGED <<options, export_options, epos, written, pos, imported, error_file, captured, origin>>
    /\ UNCHANGED <<importer_vars, builder_vars>>

\* import_data, lines 88-94: --file
ImportSingleFile ==
    /\ cpc = "file"
    /\ \E exists \in BOOLEAN, doc \in FileDocuments :
           \E r \in {import_file(db, doc, options, duplicate_handling, error_file)} :
               IF ~exists
               THEN /\ cpc' = "raised"
                    /\ UNCHANGED <<fixture_data, db, stats, imported, error_file, captured>>
               ELSE /\ fixture_data' = doc
                    /\ db' = r.db
                    /\ stats' = r.stats
                    /\ imported' = Append(imported, options.file)
                    /\ error_file' = r.error_file
                    /\ captured' = captured \o r.stats.errors
                    /\ cpc' = IF r.raised THEN "raised" ELSE "done"
    /\ UNCHANGED <<options, export_options, epos, written, pos, origin>>
    /\ UNCHANGED <<duplicate_handling, idx, pc, pass, first, before>>
    /\ UNCHANGED builder_vars

\* import_data, lines 98-102: the next file of fixture_order exists
ImportFile ==
    /\ cpc = "directory"
    /\ pos <= Len(fixture_order)
    /\ Len(imported) < MaxFiles
    /\ \E doc \in FileDocuments :
           \E r \in {import_file(db, doc, options, duplicate_handling, error_file)} :
               /\ fixture_data' = doc
               /\ db' = r.db
               /\ stats' = r.stats
               /\ imported' = Append(imported, fixture_order[pos])
               /\ error_file' = r.error_file
               /\ captured' = captured \o r.stats.errors
               /\ cpc' = IF r.raised THEN "raised" ELSE "directory"
    /\ pos' = pos + 1
    /\ UNCHANGED <<options, export_options, epos, written, origin>>
    /\ UNCHANGED <<duplicate_handling, idx, pc, pass, first, before>>
    /\ UNCHANGED builder_vars

\* import_data, lines 103-106: the next file of fixture_order does not exist
MissingFile ==
    /\ cpc = "directory"
    /\ pos <= Len(fixture_order)
    /\ pos' = pos + 1
    /\ UNCHANGED <<options, export_options, epos, written, imported, error_file, captured, cpc, origin>>
    /\ UNCHANGED <<importer_vars, builder_vars>>

\* import_data, lines 108-115: the loop over fixture_order is over
ImportComplete ==
    /\ cpc = "directory"
    /\ pos > Len(fixture_order)
    /\ cpc' = "done"
    /\ UNCHANGED <<options, export_options, epos, written, pos, imported, error_file, captured, origin>>
    /\ UNCHANGED <<importer_vars, builder_vars>>

CommandNext ==
    \/ ExportSkipApp \/ ExportSkipEmpty \/ ExportWrite \/ ExportComplete
    \/ StartImport \/ ImportSingleFile \/ ImportFile \/ MissingFile \/ ImportComplete

CommandSpec == CommandInit /\ [][CommandNext]_vars

----------------------------------------------------------------------------
(* Backup and restore: export_data writes a database to a fixture          *)
(* directory and import_data reads that directory into an empty database.  *)

\* a consistent database with one object of each entity type
FullDb ==
    [EmptyDb EXCEPT
        !.tables["GameTag"] =
            (1 :> [name |-> "Zelda", slug |-> "zelda", description |-> ""]),
        !.tables["Game"] =
            (5 :> [title |-> "Ocarina of Time", release_date |-> None,
                   release_year |-> 1998, notes |-> "", album_artists |-> {1},
                   tags |-> {1}]),
        !.tables["Person"] =
            (1 :> [name |-> "Koji Kondo", notes |-> "", products |-> {1}]),
        !.tables["Song"] =
            (1 :> [title |-> "Title Theme", game |-> 5, track_number |-> 1,
                   notes |-> "", composers |-> {1}, arrangers |-> {}]),
        !.tables["Company"] = (1 :> [name |-> "Roland", notes |-> ""]),
        !.tables["Product"] = (1 :> [name |-> "JV-1080", company |-> 1, notes |-> ""]),
        !.tables["Bank"] = (1 :> [name |-> "Preset A", product |-> 1, notes |-> ""]),
        !.tables["SoundSource"] =
            (1 :> [name |-> "Piano", bank |-> 1, product |-> None, notes |-> "",
                   discoverers |-> {}, games |-> {5}, songs |-> {1}])]

\* the entity types the two commands handle
ExportedModels == {export_steps[k].model_class : k \in 1..Len(export_steps)}

\* the objects of a database, as <<model, key>>
Objects(store) == UNION {{<<m, pk>> : pk \in DOMAIN store.tables[m]} : m \in Models}

\* every ForeignKey of an object of S points to an object of S
ReferencesWithin(store, S) ==
    \A o \in S : \A f \in DOMAIN ForeignKeys(o[1]) :
        store.tables[o[1]][o[2]][f] # None
            => <<ForeignKeys(o[1])[f], store.tables[o[1]][o[2]][f]>> \in S

\* the database with the objects of S only; memberships keep the members in S
Restrict(store, S) ==
    [store EXCEPT !.tables =
        [m \in Models |->
            [pk \in {k \in DOMAIN store.tables[m] : <<m, k>> \in S} |->
                [f \in DOMAIN store.tables[m][pk] |->
                    IF f \in DOMAIN ManyToMany(m)
                    THEN {k \in store.tables[m][pk][f] : <<ManyToMany(m)[f], k>> \in S}
                    ELSE store.tables[m][pk][f]]]]]

\* the databases that are backed up: the consistent parts of FullDb
SourceDbs ==
    {Restrict(FullDb, S) : S \in {T \in SUBSET Objects(FullDb) : ReferencesWithin(FullDb, T)}}

RoundTripInit ==
    /\ fixture_data = [kind |-> "null", items |-> <<>>]
    /\ duplicate_handling \in {"skip", "overwrite"}
    /\ db \in SourceDbs
    /\ idx = 1
    /\ stats = NewStats
    /\ pc = "idle"
    /\ pass = 1
    /\ first = [stats |-> NewStats, db |-> EmptyDb]
    /\ before = [stats |-> NewStats, db |-> EmptyDb]
    /\ BuilderIdle
    /\ options = NoOptions
    /\ export_options = NoExportOptions
    /\ epos = 1
    /\ written = <<>>
    /\ pos = 1
    /\ imported = <<>>
    /\ error_file = <<>>
    /\ captured = <<>>
    /\ cpc = "export"
    /\ origin = EmptyDb

\* import_data, lines 71-97, run on the directory export_data wrote, with an
\* empty database in place of the one that was exported
StartRestore ==
    /\ cpc = "import_data"
    /\ origin' = db
    /\ db' = EmptyDb
    /\ cpc' = "directory"
    /\ UNCHANGED <<options, export_options, epos, written, pos, imported, error_file, captured>>
    /\ UNCHANGED <<fixture_data, duplicate_handling, idx, stats, pc, pass, first, before>>
    /\ UNCHANGED builder_vars

\* the export wrote the file of this name
Exported(file) == \E k \in 1..Len(written) : written[k].file = file

ExportedData(file) == written[CHOOSE k \in 1..Len(written) : written[k].file = file].data

\* import_data, lines 98-102: the next file of fixture_order was exported
ImportExportedFile ==
    /\ cpc = "directory"
    /\ pos <= Len(fixture_order)
    /\ Exported(fixture_order[pos])
    /\ \E r \in {import_file(db, ExportedData(fixture_order[pos]), options,
                             duplicate_handling, error_file)} :
           /\ fixture_data' = ExportedData(fixture_order[pos])
           /\ db' = r.db
           /\ stats' = r.stats
           /\ imported' = Append(imported, fixture_order[pos])
           /\ error_file' = r.error_file
           /\ captured' = captured \o r.stats.errors
           /\ cpc' = IF r.raised THEN "raised" ELSE "directory"
    /\ pos' = pos + 1
    /\ UNCHANGED <<options, export_options, epos, written, origin>>
    /\ UNCHANGED <<duplicate_handling, idx, pc, pass, first, before>>
    /\ UNCHANGED builder_vars

\* import_data, lines 103-106: the next file of fixture_order was not exported
ExportedFileMissing ==
    /\ cpc = "directory"
    /\ pos <= Len(fixture_order)
    /\ ~Exported(fixture_order[pos])
    /\ pos' = pos + 1
    /\ UNCHANGED <<options, export_options, epos, written, imported, error_file, captured, cpc,
                   origin>>
    /\ UNCHANGED <<importer_vars, builder_vars>>

RoundTripNext ==
    \/ ExportSkipEmpty \/ ExportWrite \/ ExportComplete
    \/ StartRestore \/ ImportExportedFile \/ ExportedFileMissing \/ ImportComplete

RoundTripSpec == RoundTripInit /\ [][RoundTripNext]_vars

----------------------------------------------------------------------------
(* The stored sources over time: fixture imports under either policy and   *)
(* the deletions of the delete views, which cascade along the ForeignKeys  *)
(* (on_delete=models.CASCADE).                                             *)

\* the objects deleted with the objects of D: every object that refers to
\* one of them by a ForeignKey, and so on
RECURSIVE Cascade(_, _)
Cascade(store, D) ==
    LET referring == {o \in Objects(store) :
                         \E f \in DOMAIN ForeignKeys(o[1]) :
                             <<ForeignKeys(o[1])[f], store.tables[o[1]][o[2]][f]>> \in D}
    IN  IF referring \subseteq D THEN D ELSE Cascade(store, D \cup referring)

\* obj.delete(): the object and what cascades from it leave storage, and
\* leave every membership
Delete(store, m, pk) ==
    LET D == Cascade(store, {<<m, pk>>})
    IN  [store EXCEPT !.tables =
            [n \in Models |->
                [k \in {j \in DOMAIN store.tables[n] : <<n, j>> \notin D} |->
                    [f \in DOMAIN store.tables[n][k] |->
                        IF f \in DOMAIN ManyToMany(n)
                        THEN {j \in store.tables[n][k][f] : <<ManyToMany(n)[f], j>> \notin D}
                        ELSE store.tables[n][k][f]]]]]

\* the records of the fixtures that are imported, one record a file
StoreItems ==
    { [model |-> "sources.Company", pk |-> 1,
       fields |-> <<Field("name", "Roland"), Field("notes", "")>>],
      [model |-> "sources.Product", pk |-> 1,
       fields |-> <<Field("name", "JV-1080"), Field("company", 1), Field("notes", "")>>],
      [model |-> "sources.Bank", pk |-> 1,
       fields |-> <<Field("name", "Preset A"), Field("product", 1), Field("notes", "")>>],
      [model |-> "sources.SoundSource", pk |-> 1,
       fields |-> <<Field("name", "Piano"), Field("bank", 1), Field("product", None)>>],
      [model |-> "sources.SoundSource", pk |-> 2,
       fields |-> <<Field("name", "Bell"), Field("bank", None), Field("product", 1)>>],
      [model |-> "sources.SoundSource", pk |-> 1,
       fields |-> <<Field("name", "Piano"), Field("bank", None), Field("product", None)>>],
      [model |-> "sources.SoundSource", pk |-> 3,
       fields |-> <<Field("name", "Organ"), Field("bank", None), Field("product", None)>>],
      [model |-> "sources.SoundSource", pk |-> 2,
       fields |-> <<Field("name", "Chime")>>] }

StoreInit ==
    /\ fixture_data = [kind |-> "null", items |-> <<>>]
    /\ duplicate_handling = "skip"
    /\ db = EmptyDb
    /\ idx = 1
    /\ stats = NewStats
    /\ pc = "idle"
    /\ pass = 1
    /\ first = [stats |-> NewStats, db |-> EmptyDb]
    /\ before = [stats |-> NewStats, db |-> EmptyDb]
    /\ BuilderIdle
    /\ CommandsIdle

\* one whole call of import_fixture_file on a fixture of one record
ImportOneOf(records) ==
    /\ \E item \in records, policy \in {"skip", "overwrite"} :
           \E r \in {import_fixture_file(db, [kind |-> "list", items |-> <<item>>], policy)} :
               /\ fixture_data' = [kind |-> "list", items |-> <<item>>]
               /\ duplicate_handling' = policy
               /\ db' = r.db
               /\ stats' = r.stats
               /\ pc' = IF r.raised THEN "raised" ELSE "returned"
    /\ before' = [stats |-> NewStats, db |-> db]
    /\ UNCHANGED <<idx, pass, first>>
    /\ UNCHANGED <<builder_vars, command_vars>>

ImportFixture == ImportOneOf(StoreItems)

\* CompanyDeleteView
DeleteCompany ==
    /\ \E pk \in DOMAIN db.tables["Company"] : db' = Delete(db, "Company", pk)
    /\ pc' = "idle"
    /\ UNCHANGED <<fixture_data, duplicate_handling, idx, stats, pass, first, before>>
    /\ UNCHANGED <<builder_vars, command_vars>>

\* ProductDeleteView
DeleteProduct ==
    /\ \E pk \in DOMAIN db.tables["Product"] : db' = Delete(db, "Product", pk)
    /\ pc' = "idle"
    /\ UNCHANGED <<fixture_data, duplicate_handling, idx, stats, pass, first, before>>
    /\ UNCHANGED <<builder_vars, command_vars>>

\* BankDeleteView
DeleteBank ==
    /\ \E pk \in DOMAIN db.tables["Bank"] : db' = Delete(db, "Bank", pk)
    /\ pc' = "idle"
    /\ UNCHANGED <<fixture_data, duplicate_handling, idx, stats, pass, first, before>>
    /\ UNCHANGED <<builder_vars, command_vars>>

StoreNext == ImportFixture \/ DeleteCompany \/ DeleteProduct \/ DeleteBank

StoreSpec == StoreInit /\ [][StoreNext]_vars

\* fixtures of one record each with multi-reference lists, imported one after
\* another into the same storage
GameItems ==
    { [model |-> "games.GameTag", pk |-> 1,
       fields |-> <<Field("name", "Zelda"), Field("slug", "zelda"), Field("description", "")>>],
      [model |-> "games.GameTag", pk |-> 2,
       fields |-> <<Field("name", "N64"), Field("slug", "n64"), Field("description", "")>>],
      [model |-> "games.Game", pk |-> 5,
       fields |-> <<Field("title", "Ocarina of Time"), Field("tags", <<1, 7>>)>>],
      [model |-> "games.Game", pk |-> 5,
       fields |-> <<Field("title", "Ocarina of Time"), Field("tags", <<2>>)>>],
      [model |-> "games.Game", pk |-> 6,
       fields |-> <<Field("title", "Majora's Mask"), Field("tags", <<NotAKey>>)>>] }

ImportGameFixture == ImportOneOf(GameItems)

MembershipNext == ImportGameFixture

MembershipSpec == StoreInit /\ [][MembershipNext]_vars

----------------------------------------------------------------------------
(* Properties of the importer *)

\* an item of the loop has been processed, and which one was last
Processed == pc \in {"loop", "returned", "raised"} /\ idx > 1
LastItem == fixture_data.items[idx - 1]

\* the entity type the importer resolves for an item, "" when it resolves none
ModelOf(item) ==
    IF IsMapping(item) /\ "model" \in DOMAIN item /\ Len(Split(item.model, ".")) = 2
    THEN get_model(Split(item.model, ".")[1], Split(item.model, ".")[2])
    ELSE ""

\* a record in the sense of the fixture format: a mapping with a resolvable
\* type and an identity key
IsRecord(item) == ModelOf(item) # "" /\ "pk" \in DOMAIN item

\* the last item added an error message
LastFailed == Len(stats.errors) > Len(before.stats.errors)

\* C1 (as claimed): when import_fixture_file returns, every record is counted
\* exactly once: created + updated + skipped == total.
C1_CountsAddUp ==
    pc = "returned" => stats.created + stats.updated + stats.skipped = stats.total

AllKeyed == \A k \in 1..Len(fixture_data.items) : "pk" \in DOMAIN fixture_data.items[k]

SameEntity(k, j) ==
    /\ ModelOf(fixture_data.items[j]) = ModelOf(fixture_data.items[k])
    /\ fixture_data.items[j].pk = fixture_data.items[k].pk

DistinctEntities ==
    \A k \in 1..Len(fixture_data.items) : \A j \in 1..Len(fixture_data.items) :
        SameEntity(k, j) => j = k

C4_NeverAborts == fixture_data.kind = "list" => pc # "raised"

\* C5: under the skip policy a record whose processing failed leaves no entity
\* with its key in storage and leaves all rows stored before it as they were,
\* also when the failure came after the base row was inserted.
C5_CreationAllOrNothing ==
    (Processed /\ duplicate_handling = "skip" /\ LastFailed)
        => /\ db.tables = before.db.tables
           /\ IsRecord(LastItem) => ~Exists(db, ModelOf(LastItem), LastItem.pk)

\* a record failed in its multi-reference assignment, after its base row was
\* inserted (the created counter moved), and an earlier record of the pass
\* had been created and is still stored
C5_Witness ==
    /\ Processed /\ duplicate_handling = "skip" /\ LastFailed
    /\ stats.created = before.stats.created + 1
    /\ before.stats.created = 1
    /\ IsRecord(LastItem)
    /\ Exists(db, "Company", 1) /\ pass = 1 /\ ~Exists(first.db, "Company", 1)

\* C6: under the skip policy a record whose key is already stored for its
\* entity type changes nothing in storage, adds one to skipped and appends no
\* error message.
C6_DuplicateSkipIsFrame ==
    (Processed /\ duplicate_handling = "skip" /\ IsRecord(LastItem)
        /\ Exists(before.db, ModelOf(LastItem), LastItem.pk))
        => /\ db = before.db
           /\ stats.skipped = before.stats.skipped + 1
           /\ stats.created = before.stats.created
           /\ stats.updated = before.stats.updated
           /\ stats.errors = before.stats.errors

\* the example: a one-record fixture with pk=5 against a stored pk=5
C6_Witness ==
    /\ pc = "returned" /\ pass = 1 /\ duplicate_handling = "skip"
    /\ Len(fixture_data.items) = 1
    /\ IsRecord(LastItem) /\ LastItem.pk = 5
    /\ Exists(before.db, ModelOf(LastItem), 5)
    /\ stats.created = 0 /\ stats.skipped = 1 /\ Len(stats.errors) = 0
    /\ db.tables["Game"][5].tags = {1, 2}

\* a record whose single-reference field names a key with no stored target
DanglingReference(item, store) ==
    /\ IsRecord(item)
    /\ \E j \in 1..Len(item.fields) :
         /\ item.fields[j][1] \in DOMAIN ForeignKeys(ModelOf(item))
         /\ item.fields[j][2] # None
         /\ ~Exists(store, ForeignKeys(ModelOf(item))[item.fields[j][1]], item.fields[j][2])

\* C7 (as claimed): a new record with a dangling single reference yields
\* exactly one error message, classified as a foreign-key constraint
\* violation, and is not persisted.
C7_DanglingReferenceIsForeignKeyError ==
    (Processed /\ DanglingReference(LastItem, before.db)
        /\ ~Exists(before.db, ModelOf(LastItem), LastItem.pk))
        => /\ Len(stats.errors) = Len(before.stats.errors) + 1
           /\ Contains(stats.errors[Len(stats.errors)], "Foreign key constraint violation")
           /\ ~Exists(db, ModelOf(LastItem), LastItem.pk)

\* C8: under the overwrite policy a record that lists a multi-reference field
\* as an empty list leaves the stored membership of that field as it was.
C8_EmptyListClearsNothing ==
    (Processed /\ duplicate_handling = "overwrite" /\ IsRecord(LastItem)
        /\ Exists(before.db, ModelOf(LastItem), LastItem.pk))
        => \A j \in 1..Len(LastItem.fields) :
               LET f == LastItem.fields[j][1]
                   v == LastItem.fields[j][2]
                   m == ModelOf(LastItem)
               IN  (f \in DOMAIN ManyToMany(m) /\ Len(v) = 0)
                       => db.tables[m][LastItem.pk][f] = before.db.tables[m][LastItem.pk][f]

\* an update whose record lists `tags` empty ran on a game that has tags
C8_Witness ==
    /\ Processed /\ duplicate_handling = "overwrite" /\ IsRecord(LastItem)
    /\ ModelOf(LastItem) = "Game" /\ LastItem.pk = 5
    /\ stats.updated = before.stats.updated + 1
    /\ \E j \in 1..Len(LastItem.fields) :
           LastItem.fields[j][1] = "tags" /\ Len(LastItem.fields[j][2]) = 0
    /\ before.db.tables["Game"][5].tags = {1, 2}
    /\ db.tables["Game"][5].tags = {1, 2}

----------------------------------------------------------------------------
(* Properties of the builder *)

\* the identity keys of a fixture collection, and a field of one entry
Keys(collection) == {collection[k].pk : k \in 1..Len(collection)}
FieldValue(entry, name) ==
    entry.fields[CHOOSE k \in 1..Len(entry.fields) : entry.fields[k][1] = name][2]

\* every entry of the collection `from` refers, in its single reference
\* `name`, to nothing or to an entry of the collection `to`
SingleResolves(from, name, to) ==
    \A k \in 1..Len(from) :
        FieldValue(from[k], name) # None => FieldValue(from[k], name) \in Keys(to)

\* every key listed in the multi-reference `name` of an entry of `from` is
\* the key of an entry of `to`
ManyResolve(from, name, to) ==
    \A k \in 1..Len(from) : ListedKeys(FieldValue(from[k], name)) \subseteq Keys(to)

\* C9 (as claimed): in the fixtures the builder emits, every reference is the
\* identity key of a record emitted in the target collection: Product.company,
\* Bank.product, SoundSource.bank and .product, Game.tags, SoundSource.games,
\* the product of the company-name fallback included.
C9_EmittedReferencesResolve ==
    bpc = "done" =>
        /\ SingleResolves(out.products, "company", out.companies)
        /\ SingleResolves(out.banks, "product", out.products)
        /\ SingleResolves(out.soundsources, "bank", out.banks)
        /\ SingleResolves(out.soundsources, "product", out.products)
        /\ ManyResolve(out.games, "tags", out.gametags)
        /\ ManyResolve(out.soundsources, "games", out.games)

\* all the records the builder has emitted
Emitted ==
    out.gametags \o out.companies \o out.products \o out.banks \o out.games
        \o out.soundsources

\* C10 (as claimed): every record the builder emits carries a two-part model
\* identifier that the importer resolves to an entity type.
C10_EmittedModelResolves ==
    bpc = "done" => \A k \in 1..Len(Emitted) : ModelOf(Emitted[k]) # ""

\* C11: no SoundSource record the builder emits has both its bank reference
\* and its product reference null.
C11_EmittedSourceHasBankOrProduct ==
    bpc = "done" =>
        \A k \in 1..Len(out.soundsources) :
            \/ FieldValue(out.soundsources[k], "bank") # None
            \/ FieldValue(out.soundsources[k], "product") # None

\* a conversion that parsed a sound source without company (neither bank nor
\* product resolvable) and one with a company only, and emitted just the latter
C11_Witness ==
    /\ bpc = "done"
    /\ \E k \in 1..Len(cv.all_sound_sources) :
           cv.all_sound_sources[k].company = "" /\ cv.all_sound_sources[k].product # ""
    /\ Len(out.soundsources) = 1
    /\ Len(cv.all_sound_sources) = 2
    /\ FieldValue(out.soundsources[1], "bank") = None

\* row i of a file read has a game context: an earlier row of the file
\* is a game-title row; the title of that context
HasContext(rows, i) == \E j \in 1..(i - 1) : is_game_title_row(rows[j])
ContextTitle(rows, i) ==
    Strip(rows[CHOOSE j \in 1..(i - 1) :
              /\ is_game_title_row(rows[j])
              /\ \A n \in (j + 1)..(i - 1) : ~is_game_title_row(rows[n])].Company)

\* the sound source row i of a file was parsed as, <<>> if it was not
SourceOfRow(rows, i) ==
    IF HasContext(rows, i) /\ ~is_game_title_row(rows[i])
    THEN parse_sound_source_row(rows[i], ContextTitle(rows, i))
    ELSE <<>>

\* neither a bank nor a product is resolved for the sound source, the
\* company-name fallback included (generate_yaml, lines 454-478)
Unresolvable(ss) ==
    /\ ~(ss.bank # "" /\ ss.product # "" /\ ss.company # ""
            /\ <<ss.bank, ss.product, ss.company>> \in DOMAIN cv.banks)
    /\ ~(ss.product # "" /\ ss.company # ""
            /\ <<ss.product, ss.company>> \in DOMAIN cv.products)
    /\ ~(ss.company # "" /\ ss.company \in DOMAIN cv.companies)

\* the skipped-row report has an entry for row i (line i + 1) of the file,
\* with a reason
Reported(file, i) ==
    \E k \in 1..Len(cv.skipped_lines) :
        /\ cv.skipped_lines[k].file = file.name
        /\ cv.skipped_lines[k].row = i + 1
        /\ cv.skipped_lines[k].reason # ""

\* C12 (as claimed): every sound-source row for which neither a bank nor a
\* product can be resolved appears in the skipped-row report with its source
\* location and a reason.
C12_UnresolvedSourceIsReported ==
    bpc = "done" =>
        \A f \in 1..Len(csv_read) : \A i \in 1..Len(csv_read[f].rows) :
            LET ss == SourceOfRow(csv_read[f].rows, i)
            IN  (ss # <<>> /\ Unresolvable(ss[1])) => Reported(csv_read[f], i)

\* some column of the row holds text
NonEmpty(row) ==
    \E col \in {row.Company, row.Product, row.PathBank, row.Program, row.Notes, row.Examples} :
        Strip(col) # ""

\* the row is neither a game title, nor a section header, nor parsed as a
\* sound source of the current game
Unclassified(rows, i) ==
    /\ ~is_game_title_row(rows[i])
    /\ ~is_section_header(rows[i])
    /\ SourceOfRow(rows, i) = <<>>

\* C13 (as claimed): every non-empty row before the first game-title row of
\* its file, and every non-empty row that cannot be classified (a row with an
\* empty primary column and other columns filled included), is recorded in
\* the skipped-row report.
C13_UnclassifiedRowIsReported ==
    bpc = "done" =>
        \A f \in 1..Len(csv_read) : \A i \in 1..Len(csv_read[f].rows) :
            (NonEmpty(csv_read[f].rows[i]) /\ Unclassified(csv_read[f].rows, i))
                => Reported(csv_read[f], i)

\* C14 (as claimed): each distinct game title yields exactly one emitted Game
\* record: the identity keys, and the titles, of the emitted Game collection
\* are pairwise distinct, also when a title occurs in several rows or files.
C14_OneGamePerTitle ==
    bpc = "done" =>
        \A j \in 1..Len(out.games) : \A k \in 1..Len(out.games) :
            (\/ out.games[j].pk = out.games[k].pk
             \/ FieldValue(out.games[j], "title") = FieldValue(out.games[k], "title"))
                => j = k

\* the files read, in order, that hold a game-title row with the title
FilesWithTitle(title) ==
    {f \in 1..Len(csv_read) :
        \E i \in 1..Len(csv_read[f].rows) :
            /\ is_game_title_row(csv_read[f].rows[i])
            /\ Strip(csv_read[f].rows[i].Company) = title}

\* the key of the GameTag of the file in which the title was first seen
FirstSeenTag(title) ==
    LET f == CHOOSE g \in FilesWithTitle(title) : \A h \in FilesWithTitle(title) : g <= h
    IN  cv.gametags[OpenedFile(NewConverter, SortedFiles[f]).tag_name].pk

\* C15 (as claimed): each emitted Game carries the GameTag of the file in
\* which its title was first seen, and only that tag, also when the title
\* occurs again in a later file.
C15_GameCarriesFirstSeenTag ==
    bpc = "done" =>
        \A k \in 1..Len(out.games) :
            FieldValue(out.games[k], "tags")
                = <<FirstSeenTag(FieldValue(out.games[k], "title"))>>

----------------------------------------------------------------------------
(* Further properties of the importer *)

\* the item names an entity type the importer does not resolve
UnrecognizedType(item) ==
    IsMapping(item) /\ "model" \in DOMAIN item /\ ModelOf(item) = ""

\* C16 (as claimed): when a record's entity type is unrecognized the import
\* fails as a whole: the call raises instead of recording an error and going on.
C16_UnrecognizedTypeFailsImport ==
    (Processed /\ UnrecognizedType(LastItem)) => pc = "raised"

\* C16 (amended): a record whose entity type is unrecognized is counted as
\* skipped with one error message, storage and the other counters are left
\* as they were, and the import goes on with the next record.
C16_UnrecognizedTypeIsRecordError ==
    (Processed /\ UnrecognizedType(LastItem)) =>
        /\ pc \in {"loop", "returned"}
        /\ stats.skipped = before.stats.skipped + 1
        /\ Len(stats.errors) = Len(before.stats.errors) + 1
        /\ stats.created = before.stats.created
        /\ stats.updated = before.stats.updated
        /\ db = before.db

\* the first record has an unknown type and the record after it was created
C16_Witness ==
    /\ pc = "returned" /\ pass = 1
    /\ Len(fixture_data.items) = 2
    /\ UnrecognizedType(fixture_data.items[1])
    /\ fixture_data.items[1].model = "games.Platform"
    /\ stats.created = 1 /\ stats.skipped = 1 /\ Len(stats.errors) = 1

\* the message the last item appended to the error list
LastMessage == stats.errors[Len(stats.errors)]

\* the message carries the label of the constraint its error text names
Classified(msg) ==
    /\ Contains(msg, "violates unique constraint")
           => Contains(msg, "Unique constraint violation - ")
    /\ Contains(msg, "violates foreign key constraint")
           => Contains(msg, "Foreign key constraint violation - ")
    /\ Contains(msg, "violates not-null constraint")
           => Contains(msg, "Not-null constraint violation - ")

\* C17 (as claimed): under either policy a uniqueness, foreign-key or
\* not-null violation raised by a record's create or update is recorded as
\* one message that carries the matching classification and the record's
\* index, entity type and key; the record is counted as skipped and the
\* import goes on.
C17_ConstraintViolationIsClassified ==
    (Processed /\ IsRecord(LastItem) /\ LastFailed) =>
        /\ StartsWith(LastMessage, ItemPrefix(idx - 1, LastItem.model, Str(LastItem.pk)))
        /\ Classified(LastMessage)
        /\ stats.skipped = before.stats.skipped + 1
        /\ pc # "raised"

\* the last item was counted as created or updated
LastStored ==
    \/ stats.created > before.stats.created
    \/ stats.updated > before.stats.updated

\* the error list names the items by increasing index
IncreasingIndex(errors, n) ==
    \E f \in [1..Len(errors) -> 1..n] :
        /\ \A j \in 1..Len(errors) :
               StartsWith(errors[j], "Item " \o ToString(f[j]) \o " (")
        /\ \A j, k \in 1..Len(errors) : j < k => f[j] < f[k]

\* an item adds one message or none
OneMessageOrNone ==
    Processed => Len(stats.errors) - Len(before.stats.errors) \in {0, 1}

\* an item counted as created or updated adds no message
NoMessageForStored ==
    (Processed /\ LastStored) => ~LastFailed

\* the messages are in the order of the items
InIndexOrder ==
    pc \in {"loop", "returned", "raised"} => IncreasingIndex(stats.errors, idx - 1)

\* len(errors) <= skipped <= total on return
ErrorsWithinSkipped ==
    pc = "returned" =>
        /\ Len(stats.errors) <= stats.skipped
        /\ stats.skipped <= stats.total

\* C18 (as claimed): the error list holds exactly one message per failed
\* record and none for a created, updated or duplicate-skipped record, in
\* increasing order of record index; on return
\* len(errors) <= skipped <= total.
C18_ErrorListMatchesFailures ==
    /\ OneMessageOrNone
    /\ NoMessageForStored
    /\ InIndexOrder
    /\ ErrorsWithinSkipped

----------------------------------------------------------------------------
(* Properties of the management commands *)

\* how often e occurs in a sequence
Occurrences(seq, e) == Cardinality({k \in 1..Len(seq) : seq[k] = e})

\* the lines of the error file after its three heading lines
ErrorLines(lines) == IF Len(lines) < 3 THEN <<>> ELSE SubSeq(lines, 4, Len(lines))

\* C19 (as claimed): after import_data has run on a fixture directory with an
\* error-file path, the error file lists every error captured during the
\* run, those of every imported file and not only of the last file that had
\* errors.
C19_ErrorFileHoldsEveryError ==
    (cpc = "done" /\ options.file = "" /\ options.error_file) =>
        \A k \in 1..Len(captured) :
            Occurrences(ErrorLines(error_file), captured[k])
                >= Occurrences(captured, captured[k])

\* the collection a fixture file holds: "sources_banks.yaml" holds "banks"
Collection(file) ==
    LET a == CHOOSE i \in 1..Len(file) : SubSeq(file, i, i) = "_"
        b == CHOOSE i \in 1..Len(file) : SubSeq(file, i, i) = "."
    IN  SubSeq(file, a + 1, b - 1)

\* the collections that refer to one another: <<a, b>> says a goes before b
DependencyOrder ==
    { <<"gametags", "games">>, <<"games", "songs">>, <<"companies", "products">>,
      <<"products", "banks">>, <<"banks", "soundsources">> }

\* no file comes at or after a file whose collection must follow it
InDependencyOrder(files) ==
    \A j, k \in 1..Len(files) :
        k <= j => <<Collection(files[j]), Collection(files[k])>> \notin DependencyOrder

WrittenFiles == [k \in 1..Len(written) |-> written[k].file]

\* C20: a directory import hands the fixture collections to the importer in
\* dependency order (tags before games, games before songs, companies before
\* products, products before banks, banks before sound sources), and the
\* export writes its collections in the same relative order.
C20_CollectionsInDependencyOrder ==
    /\ options.file = "" => InDependencyOrder(imported)
    /\ InDependencyOrder(WrittenFiles)

\* a finished run that exported tags, games and companies and then imported
\* the companies and the products of a directory
C20_Witness ==
    /\ cpc = "done"
    /\ options.file = "" /\ ~options.dry_run
    /\ WrittenFiles = <<"games_gametags.yaml", "games_games.yaml", "sources_companies.yaml">>
    /\ imported = <<"sources_companies.yaml", "sources_products.yaml">>
    /\ stats.total > 0

\* the memberships among the exported entity types
MembershipsAmongExported(m) == {f \in DOMAIN ManyToMany(m) : ManyToMany(m)[f] \in ExportedModels}

\* an object of the exported database is stored again with the same key, the
\* same single references and the same memberships
Reproduced(m, pk) ==
    /\ pk \in DOMAIN db.tables[m]
    /\ \A f \in DOMAIN ForeignKeys(m) : db.tables[m][pk][f] = origin.tables[m][pk][f]
    /\ \A f \in MembershipsAmongExported(m) : db.tables[m][pk][f] = origin.tables[m][pk][f]

\* C21 (as claimed): exporting a database and importing the exported files
\* in the import's fixed file order into an empty database reproduces every
\* Game, GameTag, Person, Song, Company, Product, Bank and SoundSource with
\* the same key, single references and memberships among these types.
C21_ExportImportRoundTrip ==
    cpc = "done" =>
        \A m \in ExportedModels : \A pk \in DOMAIN origin.tables[m] : Reproduced(m, pk)

\* the outcome of one record, from what ImportRecord returns
Outcome(r) ==
    IF r.raised THEN "raised"
    ELSE IF Len(r.errors) > 0 THEN "skipped-error"
    ELSE IF r.skipped > 0 THEN "skipped-duplicate"
    ELSE IF r.created > 0 THEN "created"
    ELSE "updated"

\* the record names the other record's entity in one of its reference fields
References(item, other) ==
    \E k \in 1..Len(item.fields) :
        LET f == item.fields[k][1]
            v == item.fields[k][2]
        IN  \/ /\ f \in DOMAIN ForeignKeys(ModelOf(item))
               /\ ForeignKeys(ModelOf(item))[f] = ModelOf(other)
               /\ v = other.pk
            \/ /\ f \in DOMAIN ManyToMany(ModelOf(item))
               /\ ManyToMany(ModelOf(item))[f] = ModelOf(other)
               /\ other.pk \in ListedKeys(v)

\* C23 (as claimed): the outcome of a record depends on the earlier records
\* of the pass only through the keys it references: with the first record
\* of the fixture processed, the second record, which names another entity
\* and does not reference the first, is about to get the outcome it would
\* get had the first record not been in the fixture.
C23_OutcomeIndependentOfUnreferenced ==
    (/\ pc = "loop" /\ pass = 1 /\ idx = 2
     /\ Len(fixture_data.items) >= 2
     /\ IsRecord(fixture_data.items[1]) /\ IsRecord(fixture_data.items[2])
     /\ ~SameEntity(1, 2)
     /\ ~References(fixture_data.items[2], fixture_data.items[1]))
        => Outcome(ImportRecord(db, 2, fixture_data.items[2], duplicate_handling))
               = Outcome(ImportRecord(before.db, 1, fixture_data.items[2], duplicate_handling))

----------------------------------------------------------------------------
(* Properties of the stored sources *)

\* a SoundSource record that gives null for both bank and product
NullSource(item) ==
    /\ ModelOf(item) = "SoundSource"
    /\ \E k \in 1..Len(item.fields) : item.fields[k] = Field("bank", None)
    /\ \E k \in 1..Len(item.fields) : item.fields[k] = Field("product", None)

\* every stored SoundSource has a bank or a product
SourcesHaveBankOrProduct ==
    \A pk \in DOMAIN db.tables["SoundSource"] :
        db.tables["SoundSource"][pk].bank # None \/ db.tables["SoundSource"][pk].product # None

\* the import that has just returned was of a both-null SoundSource record
ImportedNullSource ==
    pc = "returned" /\ Len(fixture_data.items) = 1 /\ NullSource(fixture_data.items[1])

\* the record was skipped as a duplicate: skip policy, key already stored
SkippedAsDuplicate ==
    /\ duplicate_handling = "skip"
    /\ fixture_data.items[1].pk \in DOMAIN before.db.tables["SoundSource"]

\* C22 (as claimed): whatever imports and cascading deletions went before,
\* every stored SoundSource has a bank or a product, and an imported
\* SoundSource record with both null is not persisted and is counted as
\* skipped with an error entry.
C22_NullSourceSkippedWithError ==
    /\ SourcesHaveBankOrProduct
    /\ ImportedNullSource =>
           /\ db = before.db
           /\ stats.skipped = 1 /\ stats.created = 0 /\ stats.updated = 0
           /\ Len(stats.errors) = 1

\* C22 (amended): as claimed, but the error entry is there exactly when the
\* record was not skipped as a duplicate under the skip policy.
C22_NullSourceNeverStored ==
    /\ SourcesHaveBankOrProduct
    /\ ImportedNullSource =>
           /\ db = before.db
           /\ stats.skipped = 1 /\ stats.created = 0 /\ stats.updated = 0
           /\ Len(stats.errors) = IF SkippedAsDuplicate THEN 0 ELSE 1

\* a both-null record for the stored source 1 was refused under the overwrite
\* policy, and the source keeps its bank; another source is stored too
C22_Witness ==
    /\ ImportedNullSource
    /\ duplicate_handling = "overwrite"
    /\ fixture_data.items[1].pk = 1
    /\ DOMAIN db.tables["SoundSource"] = {1, 2}
    /\ db.tables["SoundSource"][1].bank = 1
    /\ Len(stats.errors) = 1
    /\ Contains(stats.errors[1], "ValidationError")

----------------------------------------------------------------------------
(* Properties of the classification of one row                             *)

\* one row of a newly opened file has been read
FirstRowRead == bpc = "rows" /\ Len(csv_read) = 1 /\ Len(csv_read[1].rows) = 1
FirstRow == csv_read[1].rows[1]

\* the last row read was classified as a game-title row
FirstRowIsTitle == loc.current_game_title # ""

\* the classification as the claim describes it
ClaimedGameTitle(row) ==
    LET company == Strip(row.Company)
        aux == <<Strip(row.Product), Strip(row.PathBank), Strip(row.Program)>>
    IN  /\ Len(company) >= 10
        /\ ~is_section_header(row)
        /\ \/ \E indicator \in game_indicators : Contains(company, indicator)
           \/ Len(company) >= 20 /\ \A k \in 1..3 : aux[k] = ""
           \/ Len(company) >= 15 /\ Cardinality({k \in 1..3 : Len(aux[k]) > 5}) <= 1

\* C24: the first row of a file is classified as a game-title row exactly
\* when its primary text has length >= 10, is not a section header, and
\* contains an indicator, or has length >= 20 with no auxiliary column
\* filled, or has length >= 15 with at most one auxiliary column
\* non-trivially filled.
C24_GameTitleClassification ==
    FirstRowRead => (FirstRowIsTitle <=> ClaimedGameTitle(FirstRow))

\* a row has been read and is the last row of the file so far
RowRead == bpc = "rows" /\ Len(csv_read) = 1 /\ Len(csv_read[1].rows) >= 1
LastRow == csv_read[1].rows[Len(csv_read[1].rows)]

\* the primary text contains a marker phrase, compared case-insensitively
HasMarker(row) ==
    \E pattern \in HeaderSectionPatterns : Contains(Upper(Strip(row.Company)), pattern)

\* C25: a row whose primary text contains a section-header marker phrase,
\* compared case-insensitively, is neither classified as a game-title row
\* nor emitted as a sound source.
C25_MarkerRowsAreNeverClassified ==
    (RowRead /\ HasMarker(LastRow)) =>
        /\ loc.sound_sources = <<>>
        /\ loc.current_game_title # Strip(LastRow.Company)

\* the first 4-digit group in parentheses of a text, None without one
RECURSIVE FirstYearIn(_)
FirstYearIn(s) ==
    IF Len(s) < 6 THEN None
    ELSE IF /\ Char(s, 1) = "(" /\ Char(s, 6) = ")"
            /\ \A d \in 2..5 : Contains("0123456789", Char(s, d))
    THEN CHOOSE n \in 0..9999 :
            \A d \in 1..4 :
                Char("0123456789", ((n \div <<1000, 100, 10, 1>>[d]) % 10) + 1) = Char(s, d + 1)
    ELSE FirstYearIn(SubSeq(s, 2, Len(s)))

ClaimedYear(row) ==
    IF FirstYearIn(Strip(row.Company)) # None THEN FirstYearIn(Strip(row.Company))
    ELSE FirstYearIn(Strip(row.Product))

ExampleRow == Row("Super Mario Bros.: Special Edition (1988)", "", "", "")

\* C28: the release year of a game-title row is the first 4-digit group in
\* parentheses of the title, else the first one of the Product column, else
\* null, and nothing is reported; the row "Super Mario Bros.: Special
\* Edition (1988)" with empty auxiliary columns is a game-title row of 1988.
C28_ReleaseYearOfGameTitle ==
    FirstRowRead =>
        /\ FirstRowIsTitle =>
              /\ Len(loc.current_game_data) = 1
              /\ loc.current_game_data[1].release_year = ClaimedYear(FirstRow)
              /\ cv.skipped_lines = <<>>
        /\ FirstRow = ExampleRow =>
              /\ FirstRowIsTitle
              /\ loc.current_game_data[1].release_year = 1988

\* a title whose year is found in the Product column only
C28_Witness ==
    /\ FirstRowRead
    /\ FirstRowIsTitle
    /\ FirstYearIn(Strip(FirstRow.Company)) = None
    /\ loc.current_game_data[1].release_year = 1998

----------------------------------------------------------------------------
(* Properties of the builder's synthesized keys                            *)

\* the number of distinct values of a sequence up to the first occurrence
\* of a value: k for the k-th distinct value to occur
FirstOccurrenceRank(seq, value) ==
    LET at == CHOOSE j \in 1..Len(seq) : seq[j] = value /\ \A k \in 1..(j - 1) : seq[k] # value
    IN  Cardinality({seq[k] : k \in 1..at})

\* the natural keys that occur in the scan of the sound sources, in row order;
\* "" or <<>> stands for a row without such a key
CompanyScan == [k \in 1..Len(cv.all_sound_sources) |-> cv.all_sound_sources[k].company]
ProductScan ==
    [k \in 1..Len(cv.all_sound_sources) |->
        LET ss == cv.all_sound_sources[k]
        IN  IF ss.company = "" THEN <<>>
            ELSE IF ss.product # "" THEN <<ss.product, ss.company>>
            ELSE <<ss.company, ss.company>>]
BankScan ==
    [k \in 1..Len(cv.all_sound_sources) |->
        LET ss == cv.all_sound_sources[k]
        IN  IF ss.bank # "" /\ ss.product # "" /\ ss.company # ""
            THEN <<ss.bank, ss.product, ss.company>> ELSE <<>>]
GameScan == [k \in 1..Len(cv.all_games) |-> cv.all_games[k].title]

\* the keys of a table are the ranks of first occurrence in a scan
KeysByFirstOccurrence(table, scan, none) ==
    LET occurring == [k \in 1..Cardinality({j \in 1..Len(scan) : scan[j] # none}) |->
                         scan[CHOOSE j \in 1..Len(scan) :
                                 /\ scan[j] # none
                                 /\ Cardinality({i \in 1..j : scan[i] # none}) = k]]
    IN  \A key \in DOMAIN table : table[key] = FirstOccurrenceRank(occurring, key)

\* C26: when the builder has finished, within each of Company, Product, Bank
\* and Game the k-th distinct natural key to occur in the scan of the rows,
\* fallback products included at the row that causes them, has key k.
C26_KeysByFirstOccurrence ==
    bpc = "done" =>
        /\ KeysByFirstOccurrence(cv.companies, CompanyScan, "")
        /\ KeysByFirstOccurrence(cv.products, ProductScan, <<>>)
        /\ KeysByFirstOccurrence(cv.banks, BankScan, <<>>)
        /\ KeysByFirstOccurrence(cv.games, GameScan, "")

\* the sound sources that are emitted, by their index in all_sound_sources:
\* the others have no company and resolve to no key
EmittedSources == {k \in 1..Len(cv.all_sound_sources) : cv.all_sound_sources[k].company # ""}

\* the entry of soundsources.yaml that was written for sound source k
EmittedEntry(k) == out.soundsources[Cardinality({j \in EmittedSources : j <= k})]

CompanyKeyOf(k) == cv.companies[cv.all_sound_sources[k].company]
ProductKeyOf(k) == FieldValue(EmittedEntry(k), "product")
BankKeyOf(k) == FieldValue(EmittedEntry(k), "bank")

CompanyName(k) == cv.all_sound_sources[k].company
ProductPair(k) == <<cv.all_sound_sources[k].product, cv.all_sound_sources[k].company>>
BankTriple(k) ==
    <<cv.all_sound_sources[k].bank, cv.all_sound_sources[k].product,
      cv.all_sound_sources[k].company>>

\* the pair a row is resolved with: a row without a product stands for the
\* product named after its company
ResolvedPair(k) ==
    IF cv.all_sound_sources[k].product = "" THEN <<CompanyName(k), CompanyName(k)>>
    ELSE ProductPair(k)

\* C27 as claimed: two sound-source rows have the same Company key iff their
\* company names are equal, the same Product key iff their (product, company)
\* pairs are equal, and the same Bank key iff their (bank, product, company)
\* triples are equal.
C27_SameKeyIffSameNaturalKey ==
    bpc = "done" =>
        /\ Len(out.soundsources) = Cardinality(EmittedSources)
        /\ \A i, j \in EmittedSources :
              /\ CompanyKeyOf(i) = CompanyKeyOf(j) <=> CompanyName(i) = CompanyName(j)
              /\ (ProductKeyOf(i) # None /\ ProductKeyOf(j) # None) =>
                    (ProductKeyOf(i) = ProductKeyOf(j) <=> ProductPair(i) = ProductPair(j))
              /\ (BankKeyOf(i) # None /\ BankKeyOf(j) # None) =>
                    (BankKeyOf(i) = BankKeyOf(j) <=> BankTriple(i) = BankTriple(j))

\* C27, amended: as above, where a row without a product counts as the pair
\* (company, company) of its fallback product.
C27_SameKeyIffSameResolvedKey ==
    bpc = "done" =>
        /\ Len(out.soundsources) = Cardinality(EmittedSources)
        /\ \A i, j \in EmittedSources :
              /\ CompanyKeyOf(i) = CompanyKeyOf(j) <=> CompanyName(i) = CompanyName(j)
              /\ ProductKeyOf(i) # None /\ ProductKeyOf(j) # None
              /\ ProductKeyOf(i) = ProductKeyOf(j) <=> ResolvedPair(i) = ResolvedPair(j)
              /\ (BankKeyOf(i) # None /\ BankKeyOf(j) # None) =>
                    (BankKeyOf(i) = BankKeyOf(j) <=> BankTriple(i) = BankTriple(j))

\* two emitted rows of one company and one product, one after the other in
\* the input, have the same Product key
C27_Witness ==
    /\ bpc = "done"
    /\ \E i, j \in EmittedSources :
          /\ j > i
          /\ ProductPair(i) = ProductPair(j)
          /\ ProductKeyOf(i) = ProductKeyOf(j)
          /\ ProductKeyOf(i) # None

----------------------------------------------------------------------------
(* Properties of one import into a storage that persists                   *)

\* import_fixture_file has returned from a fixture of one record
OneImported == pc = "returned" /\ Len(fixture_data.items) = 1
TheRecord == fixture_data.items[1]

\* the multi-reference fields of a record that carry a non-empty list
ListedFields(item) ==
    {k \in 1..Len(item.fields) :
        /\ item.fields[k][1] \in DOMAIN ManyToMany(ModelOf(item))
        /\ item.fields[k][2] # <<>>}

\* every listed key of the record is a value of the key type
WellFormedKeys(item) ==
    \A k \in ListedFields(item) : NotAKey \notin ListedKeys(item.fields[k][2])

\* the membership of each listed relationship is the set of the listed keys
\* whose target is stored, and nothing was reported
MembershipIsListedAndStored ==
    /\ \A k \in ListedFields(TheRecord) :
          db.tables[ModelOf(TheRecord)][TheRecord.pk][TheRecord.fields[k][1]]
              = ListedKeys(TheRecord.fields[k][2])
                    \cap DOMAIN before.db.tables[ManyToMany(ModelOf(TheRecord))[TheRecord.fields[k][1]]]
    /\ stats.errors = <<>>

C30_FailedRecordLeavesStorageUnchanged ==
    (OneImported /\ duplicate_handling = "overwrite" /\ stats.errors # <<>>)
        => db.tables = before.db.tables

====
